---- MODULE Spec2Model ----
(***************************************************************************)
(* A model of src/vm.py: the Frame class (execution stack, scopes, the     *)
(* dispatch loop `run`, the instruction handlers, and the argument-binding *)
(* closure `f` built by make_function_op) and VirtualMachine.run.          *)
(*                                                                         *)
(* Python objects are tagged records; each tag has its own field names so  *)
(* that two values of different kinds are never compared field by field.   *)
(* Mutable mappings (dict objects: the globals/locals mappings, the **kw   *)
(* collector, dict arguments) live on `heap` and are referred to by        *)
(* address, so aliasing is modelled; a dict is an insertion-ordered        *)
(* sequence of <<key, value>> pairs, keys being names.                     *)
(***************************************************************************)
EXTENDS Integers, Sequences, FiniteSets, TLC

VARIABLES
    frames,    \* every Frame object created so far, by frame id (1 = top level)
    callStack, \* ids of the frames whose run() is active, innermost last
    heap,      \* the dict objects, by address
    status,    \* "running" | "returned" | "raised": VirtualMachine.run's outcome
    result,    \* the returned value or the raised exception
    lastCall,  \* observation: the most recent invocation made by call_op
    lastIns,   \* observation: the most recent instruction dispatched by run
    kwFresh,   \* observation: frames that ran kw_names since their last call
    lastMade,  \* observation: the most recent make_function and the locals then
    executed   \* observation: the instructions dispatched so far, in order

vars == <<frames, callStack, heap, status, result, lastCall, lastIns, kwFresh,
          lastMade, executed>>

----------------------------------------------------------------------------
(* Values *)

NoneV == [t |-> "None"]
IntV(i) == [t |-> "int", i |-> i]
StrV(s) == [t |-> "str", s |-> s]
TupleV(items) == [t |-> "tuple", items |-> items]
DictV(addr) == [t |-> "dict", addr |-> addr]
CodeV(co) == [t |-> "code", co |-> co]
NativeV(name) == [t |-> "native", name |-> name]
RenderedV(conv, obj) == [t |-> "rendered", conv |-> conv, of |-> obj]
FunctionV(code, args_default, kwargs_default, self) ==
    [t |-> "function", code |-> code, args_default |-> args_default,
     kwargs_default |-> kwargs_default, self |-> self]
ExcV(kind, msg) == [t |-> "exception", kind |-> kind, msg |-> msg]
\* An exception class, as bound in builtins.
ExcClassV(kind) == [t |-> "exctype", kind |-> kind]
\* An iterator object: heap[addr] holds the items it has yet to produce.
IterV(addr) == [t |-> "iterator", addr |-> addr]
\* The float num / den, kept as the exact quotient.
FloatV(num, den) == [t |-> "float", num |-> num, den |-> den]
\* A value of the object runtime that the model does not look into.
ObjectV == [t |-> "object"]

NoExc == [t |-> "noexc"]

ERR_TOO_MANY_POS_ARGS == "Too many positional arguments"
ERR_TOO_MANY_KW_ARGS == "Too many keyword arguments"
ERR_MULT_VALUES_FOR_ARG == "Multiple values for arguments"
ERR_MISSING_POS_ARGS == "Missing positional arguments"
ERR_MISSING_KWONLY_ARGS == "Missing keyword-only arguments"
ERR_POSONLY_PASSED_AS_KW == "Positional-only argument passed as keyword argument"

BindingErrors ==
    {ERR_TOO_MANY_POS_ARGS, ERR_TOO_MANY_KW_ARGS, ERR_MULT_VALUES_FOR_ARG,
     ERR_MISSING_POS_ARGS, ERR_MISSING_KWONLY_ARGS, ERR_POSONLY_PASSED_AS_KW}

TypeErrorV(msg) == ExcV("TypeError", msg)
IndexErrorV == ExcV("IndexError", "index out of range")
NameErrorV == ExcV("NameError", "")
KeyErrorV == ExcV("KeyError", "")
AttributeErrorV == ExcV("AttributeError", "")
ZeroDivisionErrorV == ExcV("ZeroDivisionError", "")

----------------------------------------------------------------------------
(* Python sequences and dicts *)

Min(a, b) == IF a < b THEN a ELSE b
Max(a, b) == IF a > b THEN a ELSE b

\* seq[lo:hi] with Python's clamping of negative and out-of-range bounds;
\* lo and hi are 0-based.
PySlice(seq, lo, hi) ==
    LET n == Len(seq)
        l == IF lo < 0 THEN Max(n + lo, 0) ELSE Min(lo, n)
        h == IF hi < 0 THEN Max(n + hi, 0) ELSE Min(hi, n)
    IN IF l >= h THEN <<>> ELSE SubSeq(seq, l + 1, h)

\* seq[i] for a 0-based, possibly negative i is defined iff PyIndexOk.
PyIndexOk(seq, i) == (i >= 0 /\ i < Len(seq)) \/ (i < 0 /\ -i <= Len(seq))
PyIndex(seq, i) == IF i >= 0 THEN seq[i + 1] ELSE seq[Len(seq) + i + 1]

\* names.index(key): the 0-based position of the first occurrence.
PyIndexOf(seq, x) == (CHOOSE i \in 1..Len(seq) :
                         seq[i] = x /\ \A j \in 1..(i - 1) : seq[j] # x) - 1

InSeq(x, seq) == \E i \in 1..Len(seq) : seq[i] = x

DictHas(d, k) == \E i \in 1..Len(d) : d[i][1] = k
DictGet(d, k) == d[CHOOSE i \in 1..Len(d) : d[i][1] = k][2]
\* d[k] = v: an existing key keeps its place, a new key goes last.
DictSet(d, k, v) ==
    IF DictHas(d, k)
    THEN [i \in 1..Len(d) |-> IF d[i][1] = k THEN <<k, v>> ELSE d[i]]
    ELSE Append(d, <<k, v>>)
DictKeys(d) == {d[i][1] : i \in 1..Len(d)}

RECURSIVE DictUpdate(_, _)
\* d.update(e)
DictUpdate(d, e) ==
    IF e = <<>> THEN d
    ELSE DictUpdate(DictSet(d, Head(e)[1], Head(e)[2]), Tail(e))

\* dict(zip(keys, vals)): pairs up to the shorter length, a repeated key
\* keeping its last value.
DictZip(keys, vals) ==
    DictUpdate(<<>>, [i \in 1..Min(Len(keys), Len(vals)) |-> <<keys[i], vals[i]>>])

\* len(v): defined for tuples and dicts; other values have no len().
HasLen(v) == v.t \in {"tuple", "dict"}
PyLen(v, h) == IF v.t = "tuple" THEN Len(v.items) ELSE Len(h[v.addr])

\* bool(v) as used by `if self.kw_names` and `if kw_default_values`.
Truthy(v, h) ==
    CASE v.t = "None" -> FALSE
      [] v.t = "int" -> v.i # 0
      [] v.t = "float" -> v.num # 0
      [] v.t \in {"tuple", "dict"} -> PyLen(v, h) > 0
      [] OTHER -> TRUE

\* x & m for a single-bit mask m.
BitAnd(x, m) == ((x \div m) % 2) * m

----------------------------------------------------------------------------
(* Frame: construction and the stack primitives *)

\* A variant of Frame.__init__ whose frame starts with an exception in its
\* last_raised_exception.
NewFrame_with_exception(frame_code, frame_globals, frame_locals) ==
    [code |-> frame_code,
     globals |-> frame_globals,
     locals |-> frame_locals,
     data_stack |-> <<>>,
     return_value |-> NoneV,
     counter |-> 0,
     last_raised_exception |-> ExcV("ValueError", ""),
     kw_names |-> TupleV(<<>>)]

\* A variant of Frame.__init__ whose frame starts with a value on its stack.
NewFrame_with_value(frame_code, frame_globals, frame_locals) ==
    [code |-> frame_code,
     globals |-> frame_globals,
     locals |-> frame_locals,
     data_stack |-> <<NoneV>>,
     return_value |-> NoneV,
     counter |-> 0,
     last_raised_exception |-> NoneV,
     kw_names |-> TupleV(<<>>)]

\* Frame.__init__
NewFrame(frame_code, frame_globals, frame_locals) ==
    [code |-> frame_code,
     globals |-> frame_globals,
     locals |-> frame_locals,
     data_stack |-> <<>>,
     return_value |-> NoneV,
     counter |-> 0,
     last_raised_exception |-> NoneV,
     kw_names |-> TupleV(<<>>)]

top(fr) == fr.data_stack[Len(fr.data_stack)]
pop(fr) == [fr EXCEPT !.data_stack = SubSeq(@, 1, Len(@) - 1)]
push(fr, v) == [fr EXCEPT !.data_stack = Append(@, v)]
\* popn(n) returns the top n values, deepest first (all of them when fewer
\* than n are present, as the slice [-n:] does) ...
popn_values(fr, n) ==
    IF n > 0 THEN PySlice(fr.data_stack, -n, Len(fr.data_stack)) ELSE <<>>
\* ... and removes them.
popn(fr, n) ==
    IF n > 0
    THEN [fr EXCEPT !.data_stack = PySlice(@, 0, Max(Len(@) - n, 0))]
    ELSE fr

Depth(fr) == Len(fr.data_stack)

\* The outcome of a handler: the frame as the handler left it, the heap, the
\* exception it raised (NoExc when it returned), and the invocation it makes.
Done(fr, h) == [fr |-> fr, heap |-> h, exc |-> NoExc]
Raised(fr, h, e) == [fr |-> fr, heap |-> h, exc |-> e]

----------------------------------------------------------------------------
(* Argument binding: the closure f of make_function_op.                    *)
(* A binding in progress is [pa, heap, exc]: parsed_args, the heap and the *)
(* exception raised so far (NoExc while none).                             *)

has_varargs(co) == BitAnd(co.co_flags, 4) # 0
has_varkw(co) == BitAnd(co.co_flags, 8) # 0
\* shift = arg_count + kw_only_count - local_variables, a negative index
\* into names; the collectors' names sit at names[shift], names[shift + 1].
shift(co) == co.co_argcount + co.co_kwonlyargcount - co.co_nlocals
vararg_name(co) == PyIndex(co.co_varnames, shift(co))
varkw_name(co) ==
    PyIndex(co.co_varnames, shift(co) + (IF has_varargs(co) THEN 1 ELSE 0))

BindRaise(b, e) == [b EXCEPT !.exc = e]

\* lines 240-248: the collectors start as () and as a new {}.
bind_collectors(co, h) ==
    LET b0 == [pa |-> <<>>, heap |-> h, exc |-> NoExc]
        b1 == IF ~has_varargs(co) THEN b0
              ELSE IF ~PyIndexOk(co.co_varnames, shift(co))
                   THEN BindRaise(b0, IndexErrorV)
                   ELSE [b0 EXCEPT !.pa = DictSet(@, vararg_name(co), TupleV(<<>>))]
    IN IF b1.exc # NoExc \/ ~has_varkw(co) THEN b1
       ELSE IF ~PyIndexOk(co.co_varnames,
                          shift(co) + (IF has_varargs(co) THEN 1 ELSE 0))
            THEN BindRaise(b1, IndexErrorV)
            ELSE [b1 EXCEPT !.heap = Append(@, <<>>),
                            !.pa = DictSet(@, varkw_name(co), DictV(Len(b1.heap) + 1))]

\* lines 250-254: more actual positional arguments than declared.
bind_overflow(co, b, args) ==
    IF b.exc # NoExc \/ Len(args) <= co.co_argcount THEN b
    ELSE IF ~has_varargs(co)
         THEN BindRaise(b, TypeErrorV(ERR_TOO_MANY_POS_ARGS))
         ELSE [b EXCEPT !.pa = DictSet(@, vararg_name(co),
                                       TupleV(PySlice(args, co.co_argcount, Len(args))))]

RECURSIVE bind_kw_defaults_loop(_, _, _)
bind_kw_defaults_loop(co, b, items) ==
    IF items = <<>> \/ b.exc # NoExc THEN b
    ELSE LET key == Head(items)[1]
             val == Head(items)[2]
         IN bind_kw_defaults_loop(co,
                IF ~InSeq(key, co.co_varnames)
                THEN BindRaise(b, TypeErrorV(ERR_TOO_MANY_KW_ARGS))
                ELSE [b EXCEPT !.pa = DictSet(@, key, val)],
                Tail(items))

\* lines 256-261: the keyword-only defaults are applied first.
bind_kw_defaults(co, b, kw_default_values) ==
    IF b.exc # NoExc \/ ~Truthy(kw_default_values, b.heap) THEN b
    ELSE bind_kw_defaults_loop(co, b, b.heap[kw_default_values.addr])

\* parsed_args[varkw_name][key] = val: item assignment on whatever value the
\* collector's name is bound to at that moment.
store_in_varkw(co, b, key, val) ==
    LET target == DictGet(b.pa, varkw_name(co))
    IN IF target.t = "dict"
       THEN [b EXCEPT !.heap[target.addr] = DictSet(@, key, val)]
       ELSE BindRaise(b, TypeErrorV("object does not support item assignment"))

\* lines 264-276: one actual keyword argument.
bind_kwarg(co, b, key, val) ==
    IF ~InSeq(key, co.co_varnames)
    THEN IF ~has_varkw(co)
         THEN BindRaise(b, TypeErrorV(ERR_TOO_MANY_KW_ARGS))
         ELSE store_in_varkw(co, b, key, val)
    ELSE IF PyIndexOf(co.co_varnames, key) < co.co_posonlyargcount
         THEN IF ~has_varkw(co)
              THEN BindRaise(b, TypeErrorV(ERR_POSONLY_PASSED_AS_KW))
              ELSE store_in_varkw(co, b, key, val)
         ELSE [b EXCEPT !.pa = DictSet(@, key, val)]

RECURSIVE bind_kwargs(_, _, _)
\* line 263: for key, val in kwargs.items()
bind_kwargs(co, b, kwargs) ==
    IF kwargs = <<>> \/ b.exc # NoExc THEN b
    ELSE bind_kwargs(co, bind_kwarg(co, b, Head(kwargs)[1], Head(kwargs)[2]),
                     Tail(kwargs))

RECURSIVE bind_positional(_, _, _, _)
\* lines 278-285: for i, arg_val in enumerate(args), from 0-based i on.
bind_positional(co, b, args, i) ==
    IF i >= Len(args) \/ b.exc # NoExc THEN b
    ELSE IF has_varargs(co) /\ ~HasLen(DictGet(b.pa, vararg_name(co)))
    THEN BindRaise(b, TypeErrorV("object has no len()"))
    ELSE IF has_varargs(co)
            /\ i >= Len(args) - PyLen(DictGet(b.pa, vararg_name(co)), b.heap)
    THEN b
    ELSE IF ~PyIndexOk(co.co_varnames, i)
    THEN BindRaise(b, IndexErrorV)
    ELSE IF DictHas(b.pa, PyIndex(co.co_varnames, i))
    THEN BindRaise(b, TypeErrorV(ERR_MULT_VALUES_FOR_ARG))
    ELSE bind_positional(co,
             [b EXCEPT !.pa = DictSet(@, PyIndex(co.co_varnames, i), args[i + 1])],
             args, i + 1)

\* line 288: the test that skips a parameter in the defaults loop.
default_skipped(name, kwargs, pa) == DictHas(kwargs, name)

RECURSIVE bind_defaults(_, _, _, _, _)
\* lines 287-296: for i in range(len(args), arg_count), from 0-based i on.
bind_defaults(co, b, kwargs, default_values, i) ==
    IF i >= co.co_argcount \/ b.exc # NoExc THEN b
    ELSE IF default_skipped(PyIndex(co.co_varnames, i), kwargs, b.pa)
    THEN bind_defaults(co, b, kwargs, default_values, i + 1)
    ELSE LET shifted_i == i - co.co_argcount + Len(default_values.items)
         IN IF shifted_i < 0 \/ shifted_i >= Len(default_values.items)
            THEN BindRaise(b, TypeErrorV(ERR_MISSING_POS_ARGS))
            ELSE bind_defaults(co,
                     [b EXCEPT !.pa = DictSet(@, PyIndex(co.co_varnames, i),
                                              default_values.items[shifted_i + 1])],
                     kwargs, default_values, i + 1)

\* lines 298-304: the final totality checks.
bind_verify(co, b) ==
    IF b.exc # NoExc THEN b
    ELSE IF \E i \in 0..(co.co_posonlyargcount - 1) :
                ~DictHas(b.pa, PyIndex(co.co_varnames, i))
    THEN BindRaise(b, TypeErrorV(ERR_MISSING_POS_ARGS))
    ELSE IF \E i \in co.co_argcount..(co.co_argcount + co.co_kwonlyargcount - 1) :
                ~DictHas(b.pa, PyIndex(co.co_varnames, i))
    THEN BindRaise(b, TypeErrorV(ERR_MISSING_KWONLY_ARGS))
    ELSE b

\* lines 228-304: parsed_args for one invocation, or the exception raised.
parsed_args(fn, args, kwargs, h) ==
    LET co == fn.code.co
        b1 == bind_collectors(co, h)
        b2 == bind_overflow(co, b1, args)
        b3 == bind_kw_defaults(co, b2, fn.kwargs_default)
        b4 == bind_kwargs(co, b3, kwargs)
        b5 == bind_positional(co, b4, args, 0)
        b6 == bind_defaults(co, b5, kwargs, fn.args_default, Len(args))
    IN bind_verify(co, b6)

\* A variant of enclosing_locals that keeps the locals as they were when
\* make_function ran.
enclosing_locals_snapshot(fn, h, frs) == lastMade.locals

\* line 306: the mapping the callee's locals are seeded from, self.locals of
\* the frame that executed make_function, read when f is invoked.
enclosing_locals(fn, h, frs) == h[frs[fn.self].locals]

\* lines 306-309 of f: the callee Frame and the heap holding its f_locals.
\* [exc, heap, frame]: frame is the new Frame when exc = NoExc.
f(fn, args, kwargs, h, frs) ==
    LET b == parsed_args(fn, args, kwargs, h)
        f_locals == DictUpdate(enclosing_locals(fn, b.heap, frs), b.pa)
    IN IF b.exc # NoExc
       THEN [exc |-> b.exc, heap |-> b.heap, frame |-> NoneV, pa |-> b.pa]
       ELSE [exc |-> NoExc,
             heap |-> Append(b.heap, f_locals),
             frame |-> NewFrame(fn.code, frs[fn.self].globals, Len(b.heap) + 1),
             pa |-> b.pa]

----------------------------------------------------------------------------
(* Instruction handlers that neither call nor return: each maps the frame  *)
(* (and the heap) to the outcome of the handler.                           *)

\* frame_builtins: the host's builtins mapping, never written by the VM.
Builtins ==
    << <<"g", NativeV("g")>>, <<"h", NativeV("h")>>,
       <<"ValueError", ExcClassV("ValueError")>>,
       <<"KeyboardInterrupt", ExcClassV("KeyboardInterrupt")>> >>

push_null_op(fr, h) == Done(push(fr, NoneV), h)

load_const_op(fr, consti, h) == Done(push(fr, consti), h)

load_name_op(fr, namei, h) ==
    IF DictHas(h[fr.locals], namei)
    THEN Done(push(fr, DictGet(h[fr.locals], namei)), h)
    ELSE IF DictHas(h[fr.globals], namei)
    THEN Done(push(fr, DictGet(h[fr.globals], namei)), h)
    ELSE IF DictHas(Builtins, namei)
    THEN Done(push(fr, DictGet(Builtins, namei)), h)
    ELSE Raised(fr, h, NameErrorV)

load_fast_op(fr, var_num, h) == load_name_op(fr, var_num, h)

\* A variant of store_name_op that binds the name in the frame's globals.
store_name_op_in_globals(fr, namei, h) ==
    IF Depth(fr) = 0 THEN Raised(fr, h, IndexErrorV)
    ELSE Done(pop(fr), [h EXCEPT ![fr.globals] = DictSet(@, namei, top(fr))])

store_name_op(fr, namei, h) ==
    IF Depth(fr) = 0 THEN Raised(fr, h, IndexErrorV)
    ELSE Done(pop(fr), [h EXCEPT ![fr.locals] = DictSet(@, namei, top(fr))])

pop_top_op(fr, h) ==
    IF Depth(fr) = 0 THEN Raised(fr, h, IndexErrorV) ELSE Done(pop(fr), h)

kw_names_op(fr, consti, h) ==
    IF ~PyIndexOk(fr.code.co.co_consts, consti) THEN Raised(fr, h, IndexErrorV)
    ELSE Done([fr EXCEPT !.kw_names = PyIndex(fr.code.co.co_consts, consti)], h)

\* make_function_op; self is the id of the frame executing it, which the
\* closure f keeps a reference to.
make_function_op(fr, self, flags, h) ==
    IF Depth(fr) = 0 THEN Raised(fr, h, IndexErrorV)
    ELSE
    LET code == top(fr)
        fr1 == pop(fr)
        with_args == BitAnd(flags, 1) # 0
        with_kw == BitAnd(flags, 2) # 0
    IN IF with_args /\ Depth(fr1) = 0 THEN Raised(fr1, h, IndexErrorV)
       ELSE
       LET args_default == IF with_args THEN top(fr1) ELSE TupleV(<<>>)
           fr2 == IF with_args THEN pop(fr1) ELSE fr1
       IN IF with_kw /\ Depth(fr2) = 0 THEN Raised(fr2, h, IndexErrorV)
          ELSE
          LET h1 == IF with_kw THEN h ELSE Append(h, <<>>)
              kwargs_default == IF with_kw THEN top(fr2) ELSE DictV(Len(h) + 1)
              fr3 == IF with_kw THEN pop(fr2) ELSE fr2
          IN Done(push(fr3, FunctionV(code, args_default, kwargs_default, self)), h1)

format_value_op(fr, flags, h) ==
    IF BitAnd(flags, 4) = 1
    THEN IF Depth(fr) < 2 THEN Raised(popn(fr, 1), h, IndexErrorV)
         ELSE LET format_spec == top(fr)
                  obj == top(pop(fr))
              IN Done(push(pop(pop(fr)), RenderedV("format_spec", obj)), h)
    ELSE IF Depth(fr) = 0 THEN Raised(fr, h, IndexErrorV)
         ELSE LET obj == top(fr)
                  fr1 == pop(fr)
                  conv == BitAnd(flags, 1) + BitAnd(flags, 2)
              IN IF conv = 1 THEN Done(push(fr1, RenderedV("str", obj)), h)
                 ELSE IF conv = 2 THEN Done(push(fr1, RenderedV("repr", obj)), h)
                 ELSE IF conv = 3 THEN Done(push(fr1, RenderedV("ascii", obj)), h)
                 ELSE Done(fr1, h)

\* store_global_op and store_fast_op
store_global_op(fr, namei, h) ==
    IF Depth(fr) = 0 THEN Raised(fr, h, IndexErrorV)
    ELSE Done(pop(fr), [h EXCEPT ![fr.globals] = DictSet(@, namei, top(fr))])

store_fast_op(fr, var_num, h) ==
    IF Depth(fr) = 0 THEN Raised(fr, h, IndexErrorV)
    ELSE Done(pop(fr), [h EXCEPT ![fr.locals] = DictSet(@, var_num, top(fr))])

\* A variant of load_global_op that looks the name up as load_name_op does.
load_global_op_locals_first(fr, namei, val, h) ==
    LET fr1 == IF BitAnd(namei, 1) = 1 THEN push(fr, NoneV) ELSE fr
    IN IF DictHas(h[fr.locals], val)
       THEN Done(push(fr1, DictGet(h[fr.locals], val)), h)
       ELSE IF DictHas(h[fr.globals], val)
       THEN Done(push(fr1, DictGet(h[fr.globals], val)), h)
       ELSE IF DictHas(Builtins, val)
       THEN Done(push(fr1, DictGet(Builtins, val)), h)
       ELSE Raised(fr1, h, NameErrorV)

\* load_global_op(namei, val): the null marker first when the low bit of
\* namei is set, then the lookup in globals and builtins.
load_global_op(fr, namei, val, h) ==
    LET fr1 == IF BitAnd(namei, 1) = 1 THEN push(fr, NoneV) ELSE fr
    IN IF DictHas(h[fr.globals], val)
       THEN Done(push(fr1, DictGet(h[fr.globals], val)), h)
       ELSE IF DictHas(Builtins, val)
       THEN Done(push(fr1, DictGet(Builtins, val)), h)
       ELSE Raised(fr1, h, NameErrorV)

----------------------------------------------------------------------------
(* Jumps.  self.index maps the byte offset of each instruction to its      *)
(* position in ins_lst (lines 105-106).                                    *)

HasOffset(fr, to) ==
    \E i \in 1..Len(fr.code.co.ins) : fr.code.co.ins[i].offset = to
\* self.index[to], 0-based
index(fr, to) ==
    (CHOOSE i \in 1..Len(fr.code.co.ins) : fr.code.co.ins[i].offset = to) - 1

\* A variant of jump_forward_op that sets the counter to the target itself.
jump_forward_op_no_adjust(fr, to, h) ==
    IF ~HasOffset(fr, to) THEN Raised(fr, h, KeyErrorV)
    ELSE Done([fr EXCEPT !.counter = index(fr, to)], h)

\* self.counter = self.index[to] - 1; run adds 1 after the handler.
jump_forward_op(fr, to, h) ==
    IF ~HasOffset(fr, to) THEN Raised(fr, h, KeyErrorV)
    ELSE Done([fr EXCEPT !.counter = index(fr, to) - 1], h)

\* A variant of jump_backward_op that leaves the counter at the target, so
\* that run's increment moves past it.
jump_backward_op_no_adjust(fr, to, h) ==
    IF ~HasOffset(fr, to) THEN Raised(fr, h, KeyErrorV)
    ELSE Done([fr EXCEPT !.counter = index(fr, to)], h)

jump_backward_op(fr, to, h) ==
    IF ~HasOffset(fr, to) THEN Raised(fr, h, KeyErrorV)
    ELSE Done([fr EXCEPT !.counter = index(fr, to) - 1], h)

pop_jump_forward_if_true_op(fr, to, h) ==
    IF Depth(fr) = 0 THEN Raised(fr, h, IndexErrorV)
    ELSE IF Truthy(top(fr), h) THEN jump_forward_op(pop(fr), to, h)
    ELSE Done(pop(fr), h)

pop_jump_forward_if_false_op(fr, to, h) ==
    IF Depth(fr) = 0 THEN Raised(fr, h, IndexErrorV)
    ELSE IF ~Truthy(top(fr), h) THEN jump_forward_op(pop(fr), to, h)
    ELSE Done(pop(fr), h)

pop_jump_backward_if_true_op(fr, to, h) ==
    IF Depth(fr) = 0 THEN Raised(fr, h, IndexErrorV)
    ELSE IF Truthy(top(fr), h) THEN jump_forward_op(pop(fr), to, h)
    ELSE Done(pop(fr), h)

pop_jump_backward_if_false_op(fr, to, h) ==
    IF Depth(fr) = 0 THEN Raised(fr, h, IndexErrorV)
    ELSE IF ~Truthy(top(fr), h) THEN jump_forward_op(pop(fr), to, h)
    ELSE Done(pop(fr), h)

\* A variant of jump_if_true_or_pop_op that pops the condition in both cases.
jump_if_true_or_pop_op_always_pop(fr, to, h) ==
    IF Depth(fr) = 0 THEN Raised(fr, h, IndexErrorV)
    ELSE IF Truthy(top(fr), h) THEN jump_forward_op(pop(fr), to, h)
    ELSE Done(pop(fr), h)

jump_if_true_or_pop_op(fr, to, h) ==
    IF Depth(fr) = 0 THEN Raised(fr, h, IndexErrorV)
    ELSE IF Truthy(top(fr), h) THEN jump_forward_op(fr, to, h)
    ELSE Done(pop(fr), h)

jump_if_false_or_pop_op(fr, to, h) ==
    IF Depth(fr) = 0 THEN Raised(fr, h, IndexErrorV)
    ELSE IF ~Truthy(top(fr), h) THEN jump_forward_op(fr, to, h)
    ELSE Done(pop(fr), h)

----------------------------------------------------------------------------
(* Iteration and unpacking.  The values the model iterates are tuples and  *)
(* iterators; values without __iter__, __next__ or len() raise.            *)

NotIterable == {"None", "int", "float", "function", "native", "code", "exception"}

\* iterable.__iter__(): a new iterator over a tuple, the iterator itself.
get_iter_op(fr, h) ==
    IF Depth(fr) = 0 THEN Raised(fr, h, IndexErrorV)
    ELSE LET iterable == top(fr)
             fr1 == pop(fr)
         IN CASE iterable.t = "tuple" ->
                    Done(push(fr1, IterV(Len(h) + 1)), Append(h, iterable.items))
              [] iterable.t = "iterator" -> Done(push(fr1, iterable), h)
              [] iterable.t \in NotIterable -> Raised(fr1, h, AttributeErrorV)

\* self.top().__next__(): the next item is pushed above the iterator; on
\* StopIteration the iterator is popped and the jump to `to` is taken.
for_iter_op(fr, to, h) ==
    IF Depth(fr) = 0 THEN Raised(fr, h, IndexErrorV)
    ELSE IF top(fr).t # "iterator" THEN Raised(fr, h, AttributeErrorV)
    ELSE LET a == top(fr).addr
         IN IF h[a] # <<>>
            THEN Done(push(fr, Head(h[a])), [h EXCEPT ![a] = Tail(@)])
            ELSE jump_forward_op(pop(fr), to, h)

RECURSIVE push_all(_, _)
\* for i in items: self.push(i)
push_all(fr, items) ==
    IF items = <<>> THEN fr ELSE push_all(push(fr, Head(items)), Tail(items))

\* A variant of Reversed that keeps the order of the items.
Unreversed(items) == items

\* items[::-1]
Reversed(items) == [i \in 1..Len(items) |-> items[Len(items) - i + 1]]

unpack_sequence_op(fr, count, h) ==
    IF Depth(fr) = 0 THEN Raised(fr, h, IndexErrorV)
    ELSE CASE top(fr).t = "tuple" ->
                 IF Len(top(fr).items) # count THEN Raised(fr, h, ExcV("ValueError", ""))
                 ELSE Done(push_all(pop(fr), Reversed(top(fr).items)), h)
           [] top(fr).t \in NotIterable \cup {"iterator"} ->
                 Raised(fr, h, TypeErrorV("object has no len()"))

----------------------------------------------------------------------------
(* raise_varargs_op *)

\* issubclass(cls, Exception) for the exception classes of Builtins.
ExceptionSubclasses == {"ValueError"}

\* `raise v`: an exception instance is raised as it is, an exception class
\* is instantiated, anything else is a TypeError.
PyRaise(v) ==
    CASE v.t = "exception" -> v
      [] v.t = "exctype" -> ExcV(v.kind, "")
      [] OTHER -> TypeErrorV("exceptions must derive from BaseException")

\* lines 510-511 and 516-517
Instantiated(exception) ==
    IF exception.t = "exctype" /\ exception.kind \in ExceptionSubclasses
    THEN ExcV(exception.kind, "")
    ELSE exception

\* e with e.__cause__ = cause
WithCause(e, cause) ==
    IF cause.t = "None" THEN e
    ELSE [t |-> "exception", kind |-> e.kind, msg |-> e.msg, cause |-> cause]

\* A variant of raise_varargs_op that records the exception of `raise e`
\* and lets the frame go on.
raise_varargs_op_recording_only(fr, argc, h) ==
    IF argc = 1 /\ Depth(fr) > 0
    THEN Done([pop(fr) EXCEPT !.last_raised_exception = Instantiated(top(fr))], h)
    ELSE Raised(fr, h, ExcV("ValueError", ""))

raise_varargs_op(fr, argc, h) ==
    IF argc = 0
    THEN IF fr.last_raised_exception.t = "exception"
         THEN Raised(fr, h, fr.last_raised_exception)
         ELSE Raised(fr, h, ExcV("ValueError", "Invalid last_raised_exception"))
    ELSE IF argc = 1
    THEN IF Depth(fr) = 0 THEN Raised(fr, h, IndexErrorV)
         ELSE LET exception == Instantiated(top(fr))
              IN Raised([pop(fr) EXCEPT !.last_raised_exception = exception], h,
                        PyRaise(exception))
    ELSE IF argc = 2
    THEN IF Depth(fr) < 2
         THEN Raised(popn(fr, 2), h, ExcV("ValueError", "not enough values to unpack"))
         ELSE LET exception == Instantiated(popn_values(fr, 2)[1])
                  cause == popn_values(fr, 2)[2]
                  fr1 == popn(fr, 2)
              IN IF exception.t = "exctype"
                 THEN Raised(fr1, h, TypeErrorV("cannot set attribute of immutable type"))
                 ELSE IF exception.t # "exception"
                 THEN Raised(fr1, h, AttributeErrorV)
                 ELSE IF cause.t \notin {"None", "exception"}
                 THEN Raised(fr1, h, TypeErrorV("exception cause must be None or derive from BaseException"))
                 ELSE Raised([fr1 EXCEPT !.last_raised_exception = WithCause(exception, cause)],
                             h, WithCause(exception, cause))
    ELSE Raised(fr, h, ExcV("ValueError", ""))

----------------------------------------------------------------------------
(* binary_op_op and the two halves of _BINARIES (lines 39-66).  Operations *)
(* on two ints are computed; any other operand is left to the object       *)
(* runtime, which may answer a value or raise.                             *)

\* codes 0..12: the operator each lambda applies
BinaryOperator(op) ==
    CASE op = 0 -> "add"       [] op = 10 -> "sub"     [] op = 5 -> "mul"
      [] op = 11 -> "truediv"  [] op = 2 -> "floordiv" [] op = 6 -> "mod"
      [] op = 4 -> "matmul"    [] op = 8 -> "pow"      [] op = 3 -> "lshift"
      [] op = 9 -> "rshift"    [] op = 1 -> "and"      [] op = 7 -> "or"
      [] op = 12 -> "xor"
\* codes 13..25: the method each lambda looks up on the left operand
BinaryMethod(op) ==
    CASE op = 13 -> "add"      [] op = 23 -> "sub"     [] op = 18 -> "mul"
      [] op = 24 -> "truediv"  [] op = 15 -> "floordiv" [] op = 19 -> "mod"
      [] op = 17 -> "matmul"   [] op = 21 -> "pow"     [] op = 16 -> "lshift"
      [] op = 22 -> "rshift"   [] op = 14 -> "and"     [] op = 20 -> "or"
      [] op = 25 -> "xor"

\* floor(x / y) for y # 0
FloorDiv(x, y) == IF y > 0 THEN x \div y ELSE (0 - x) \div (0 - y)

RECURSIVE IntPow(_, _)
IntPow(x, n) == IF n = 0 THEN 1 ELSE x * IntPow(x, n - 1)

\* One bit of a bitwise operator.
Bit(name, a, b) ==
    CASE name = "and" -> a /\ b
      [] name = "or" -> a \/ b
      [] name = "xor" -> a # b

RECURSIVE Bitwise(_, _, _)
\* x & y, x | y, x ^ y on ints of unbounded two's complement width
Bitwise(name, x, y) ==
    IF x \in {0, -1} /\ y \in {0, -1}
    THEN IF Bit(name, x = -1, y = -1) THEN -1 ELSE 0
    ELSE 2 * Bitwise(name, FloorDiv(x, 2), FloorDiv(y, 2))
           + (IF Bit(name, x % 2 = 1, y % 2 = 1) THEN 1 ELSE 0)

\* The methods the int type has: every one of the table but __matmul__.
IntHas(name) == name # "matmul"

\* int.__name__(x, y) for ints x and y: the value, or the exception.
int_method(name, x, y) ==
    CASE name = "add" -> IntV(x + y)
      [] name = "sub" -> IntV(x - y)
      [] name = "mul" -> IntV(x * y)
      [] name = "truediv" -> IF y = 0 THEN ZeroDivisionErrorV ELSE FloatV(x, y)
      [] name = "floordiv" -> IF y = 0 THEN ZeroDivisionErrorV ELSE IntV(FloorDiv(x, y))
      [] name = "mod" ->
             IF y = 0 THEN ZeroDivisionErrorV ELSE IntV(x - y * FloorDiv(x, y))
      [] name = "pow" ->
             IF y >= 0 THEN IntV(IntPow(x, y))
             ELSE IF x = 0 THEN ZeroDivisionErrorV
             ELSE FloatV(1, IntPow(x, 0 - y))
      [] name = "lshift" ->
             IF y < 0 THEN ExcV("ValueError", "negative shift count")
             ELSE IntV(x * IntPow(2, y))
      [] name = "rshift" ->
             IF y < 0 THEN ExcV("ValueError", "negative shift count")
             ELSE IntV(FloorDiv(x, IntPow(2, y)))
      [] name \in {"and", "or", "xor"} -> IntV(Bitwise(name, x, y))

\* What the object runtime may answer for operands that are not both ints.
ObjectOutcomes == <<ObjectV, TypeErrorV("unsupported operand type(s)")>>

\* _BINARIES[op](left, right): the possible results, a value or an
\* exception.  x <operator> y on ints is a TypeError when int lacks the
\* operation; x.__method__(y) is an AttributeError when int lacks the method.
binary_results(op, left, right) ==
    IF left.t # "int" \/ right.t # "int" THEN ObjectOutcomes
    ELSE IF op <= 12
    THEN IF IntHas(BinaryOperator(op))
         THEN <<int_method(BinaryOperator(op), left.i, right.i)>>
         ELSE <<TypeErrorV("unsupported operand type(s)")>>
    ELSE IF IntHas(BinaryMethod(op))
         THEN <<int_method(BinaryMethod(op), left.i, right.i)>>
         ELSE <<AttributeErrorV>>

\* A variant of binary_op_op that reads the left operand without popping it.
binary_op_op_keep_left(fr, op, h, k) ==
    IF Depth(fr) < 2 THEN Raised(popn(fr, 2), h, IndexErrorV)
    ELSE LET right == top(fr)
             left == top(pop(fr))
             fr1 == pop(fr)
         IN IF op \notin 0..25 THEN Raised(fr1, h, KeyErrorV)
            ELSE LET r == binary_results(op, left, right)[k]
                 IN IF r.t = "exception" THEN Raised(fr1, h, r)
                    ELSE Done(push(fr1, r), h)

\* binary_op_op; k picks one of the possible results.
binary_op_op(fr, op, h, k) ==
    IF Depth(fr) < 2 THEN Raised(popn(fr, 2), h, IndexErrorV)
    ELSE LET right == top(fr)
             left == top(pop(fr))
             fr1 == pop(pop(fr))
         IN IF op \notin 0..25 THEN Raised(fr1, h, KeyErrorV)
            ELSE LET r == binary_results(op, left, right)[k]
                 IN IF r.t = "exception" THEN Raised(fr1, h, r)
                    ELSE Done(push(fr1, r), h)

----------------------------------------------------------------------------
(* call_op up to the invocation *)

\* lines 140-146: the popped values split into positional and keyword
\* arguments by the frame's kw_names.
call_args(fr, argc, h) ==
    LET all_args == popn_values(fr, argc)
        names == fr.kw_names.items
    IN IF Truthy(fr.kw_names, h)
       THEN [args |-> PySlice(all_args, 0, Len(all_args) - Len(names)),
             kwargs |-> DictZip([i \in 1..Len(names) |-> names[i].s],
                                PySlice(all_args, -Len(names), Len(all_args)))]
       ELSE [args |-> all_args, kwargs |-> <<>>]

\* A variant of call_target that always invokes the value popped first and
\* prepends the value beneath it when that is not the null marker.
call_target_callable_first(fr1, args) ==
    IF Depth(fr1) = 0 THEN [exc |-> IndexErrorV, fr |-> fr1, func |-> NoneV, args |-> args]
    ELSE LET func == top(fr1)
             fr2 == pop(fr1)
         IN IF Depth(fr2) = 0
            THEN [exc |-> IndexErrorV, fr |-> fr2, func |-> func, args |-> args]
            ELSE IF top(fr2) = NoneV
            THEN [exc |-> NoExc, fr |-> pop(fr2), func |-> func, args |-> args]
            ELSE [exc |-> NoExc, fr |-> pop(fr2), func |-> func,
                  args |-> <<top(fr2)>> \o args]

\* lines 148-156: which value is invoked and with which positional
\* arguments, given the frame after the arguments were popped.
\* [exc, fr, func, args]
call_target(fr1, args) ==
    IF Depth(fr1) = 0 THEN [exc |-> IndexErrorV, fr |-> fr1, func |-> NoneV, args |-> args]
    ELSE LET func == top(fr1)
             fr2 == pop(fr1)
         IN IF Depth(fr2) = 0
            THEN [exc |-> IndexErrorV, fr |-> fr2, func |-> func, args |-> args]
            ELSE IF top(fr2) = NoneV
            THEN [exc |-> NoExc, fr |-> pop(fr2), func |-> func, args |-> args]
            ELSE [exc |-> NoExc, fr |-> pop(fr2), func |-> top(fr2),
                  args |-> <<func>> \o args]

\* Calling an exception class: the instance, which keeps its arguments.
new_exception(cls, args) ==
    IF args = <<>> THEN ExcV(cls.kind, "")
    ELSE [t |-> "exception", kind |-> cls.kind, msg |-> "", args |-> args]

\* What the object runtime may answer when a host callable is invoked: a
\* value, or an exception.
NativeOutcomes == <<NoneV, IntV(0), TypeErrorV("invalid argument")>>

----------------------------------------------------------------------------
(* The dispatch loop, Frame.run, one instruction per step *)

CurId == callStack[Len(callStack)]
cur == frames[CurId]
ins_lst(fr) == fr.code.co.ins
CurIns == ins_lst(cur)[cur.counter + 1]

\* The number of instructions a run may dispatch: a program that loops for
\* ever is followed this far.
MaxSteps == 60

\* lines 107-111: the loop fetches the instruction at counter.
Fetch(opname) ==
    /\ status = "running"
    /\ callStack # <<>>
    /\ Len(executed) < MaxSteps
    /\ cur.counter < Len(ins_lst(cur))
    /\ CurIns.opname = opname

Observe(opname) ==
    /\ lastIns' = [frame |-> CurId, opname |-> opname, arg |-> CurIns.arg,
                   depth |-> Depth(cur), stack |-> cur.data_stack]
    /\ executed' = Append(executed, [frame |-> CurId, pos |-> cur.counter,
                                     opname |-> opname])

\* An exception leaves run() of every active frame: nothing handles it.
RaiseIn(id, fr, h, e) ==
    /\ frames' = [frames EXCEPT ![id] = fr]
    /\ heap' = h
    /\ status' = "raised"
    /\ result' = e
    /\ UNCHANGED callStack

\* line 122: self.counter += 1 after a handler that returned.
Advance(out) ==
    IF out.exc = NoExc
    THEN /\ frames' = [frames EXCEPT ![CurId] = [out.fr EXCEPT !.counter = @ + 1]]
         /\ heap' = out.heap
         /\ UNCHANGED <<callStack, status, result>>
    ELSE RaiseIn(CurId, out.fr, out.heap, out.exc)

Simple(opname, out) ==
    /\ Fetch(opname)
    /\ Observe(opname)
    /\ Advance(out)
    /\ UNCHANGED <<lastCall, kwFresh>>

Plain(opname, out) == Simple(opname, out) /\ UNCHANGED lastMade

PushNull == Plain("push_null", push_null_op(cur, heap))
LoadConst == Plain("load_const", load_const_op(cur, CurIns.argval, heap))
LoadName == Plain("load_name", load_name_op(cur, CurIns.argval.s, heap))
LoadFast == Plain("load_fast", load_fast_op(cur, CurIns.argval.s, heap))
StoreName == Plain("store_name", store_name_op(cur, CurIns.argval.s, heap))
PopTop == Plain("pop_top", pop_top_op(cur, heap))
MakeFunction ==
    LET out == make_function_op(cur, CurId, CurIns.argval.i, heap)
    IN /\ Simple("make_function", out)
       /\ lastMade' = IF out.exc = NoExc
                      THEN [frame |-> CurId, fn |-> top(out.fr),
                            locals |-> heap[cur.locals]]
                      ELSE lastMade
FormatValue == Plain("format_value", format_value_op(cur, CurIns.arg, heap))
StoreGlobal == Plain("store_global", store_global_op(cur, CurIns.argval.s, heap))
StoreFast == Plain("store_fast", store_fast_op(cur, CurIns.argval.s, heap))
LoadGlobal ==
    Plain("load_global", load_global_op(cur, CurIns.arg, CurIns.argval.s, heap))
UnpackSequence ==
    Plain("unpack_sequence", unpack_sequence_op(cur, CurIns.argval.i, heap))
GetIter == Plain("get_iter", get_iter_op(cur, heap))
ForIter == Plain("for_iter", for_iter_op(cur, CurIns.argval.i, heap))
JumpForward == Plain("jump_forward", jump_forward_op(cur, CurIns.argval.i, heap))
JumpBackward == Plain("jump_backward", jump_backward_op(cur, CurIns.argval.i, heap))
PopJumpForwardIfTrue ==
    Plain("pop_jump_forward_if_true",
          pop_jump_forward_if_true_op(cur, CurIns.argval.i, heap))
PopJumpForwardIfFalse ==
    Plain("pop_jump_forward_if_false",
          pop_jump_forward_if_false_op(cur, CurIns.argval.i, heap))
PopJumpBackwardIfTrue ==
    Plain("pop_jump_backward_if_true",
          pop_jump_backward_if_true_op(cur, CurIns.argval.i, heap))
PopJumpBackwardIfFalse ==
    Plain("pop_jump_backward_if_false",
          pop_jump_backward_if_false_op(cur, CurIns.argval.i, heap))
JumpIfTrueOrPop ==
    Plain("jump_if_true_or_pop", jump_if_true_or_pop_op(cur, CurIns.argval.i, heap))
JumpIfFalseOrPop ==
    Plain("jump_if_false_or_pop", jump_if_false_or_pop_op(cur, CurIns.argval.i, heap))
RaiseVarargs == Plain("raise_varargs", raise_varargs_op(cur, CurIns.argval.i, heap))

\* The number of results the object runtime may give binary_op_op.
binary_choices(fr, op) ==
    IF Depth(fr) < 2 \/ op \notin 0..25 THEN 1
    ELSE Len(binary_results(op, top(pop(fr)), top(fr)))
BinaryOp ==
    /\ Fetch("binary_op")
    /\ \E k \in 1..binary_choices(cur, CurIns.arg) :
          Plain("binary_op", binary_op_op(cur, CurIns.arg, heap, k))

KwNames ==
    /\ Fetch("kw_names")
    /\ Observe("kw_names")
    /\ Advance(kw_names_op(cur, CurIns.arg, heap))
    /\ kwFresh' = kwFresh \cup {CurId}
    /\ UNCHANGED <<lastCall, lastMade>>

\* run() returns value: to VirtualMachine.run for the top-level frame, else
\* into the call_op of the calling frame, which pushes it (lines 152, 157)
\* and whose loop then increments its counter.
ReturnFrom(fr, value) ==
    /\ heap' = heap
    /\ IF Len(callStack) = 1
       THEN /\ frames' = [frames EXCEPT ![CurId] = fr]
            /\ status' = "returned"
            /\ result' = value
            /\ callStack' = <<>>
            /\ UNCHANGED lastCall
       ELSE LET caller == callStack[Len(callStack) - 1]
            IN /\ frames' = [frames EXCEPT
                     ![CurId] = fr,
                     ![caller] = [push(frames[caller], value) EXCEPT !.counter = @ + 1]]
               /\ callStack' = SubSeq(callStack, 1, Len(callStack) - 1)
               /\ lastCall' = [lastCall EXCEPT ![caller].returned = TRUE,
                          ![caller].after = Append(frames[caller].data_stack, value)]
               /\ UNCHANGED <<status, result>>

\* return_value_op, and the break of lines 119-120.
ReturnValue ==
    /\ Fetch("return_value")
    /\ Observe("return_value")
    /\ UNCHANGED <<kwFresh, lastMade>>
    /\ IF Depth(cur) = 0
       THEN RaiseIn(CurId, cur, heap, IndexErrorV) /\ UNCHANGED lastCall
       ELSE ReturnFrom([pop(cur) EXCEPT !.return_value = top(cur)], top(cur))

\* lines 108-109 and 124: the counter ran past the last instruction.
RunExit ==
    /\ status = "running"
    /\ callStack # <<>>
    /\ cur.counter >= Len(ins_lst(cur))
    /\ ReturnFrom(cur, cur.return_value)
    /\ UNCHANGED <<lastIns, kwFresh, lastMade, executed>>

NoCall == [made |-> FALSE]

\* call_op. The record kept in lastCall observes the stack before the call
\* and the invocation func(*args, **kwargs) that was made.
Call ==
    /\ Fetch("call")
    /\ Observe("call")
    /\ kwFresh' = kwFresh \ {CurId}
    /\ UNCHANGED lastMade
    /\ LET id == CurId
           argc == CurIns.argval.i
           split == call_args(cur, argc, heap)
           tgt == call_target(popn(cur, argc), split.args)
           log == [made |-> TRUE, argc |-> argc, before |-> cur.data_stack,
                   fresh |-> id \in kwFresh, exc |-> tgt.exc,
                   func |-> tgt.func, args |-> tgt.args, kwargs |-> split.kwargs,
                   positional |-> split.args, names |-> cur.kw_names.items,
                   pa |-> <<>>, callee |-> 0,
                   returned |-> FALSE, after |-> <<>>]
       IN IF tgt.exc # NoExc
          THEN /\ RaiseIn(id, tgt.fr, heap, tgt.exc)
               /\ lastCall' = [lastCall EXCEPT ![id] = log]
          ELSE IF tgt.func.t = "function"
          THEN LET r == f(tgt.func, tgt.args, split.kwargs, heap, frames)
               IN IF r.exc # NoExc
                  THEN /\ RaiseIn(id, tgt.fr, r.heap, r.exc)
                       /\ lastCall' = [lastCall EXCEPT ![id] = [log EXCEPT !.exc = r.exc]]
                  ELSE /\ frames' = Append([frames EXCEPT ![id] = tgt.fr], r.frame)
                       /\ callStack' = Append(callStack, Len(frames) + 1)
                       /\ heap' = r.heap
                       /\ lastCall' = Append([lastCall EXCEPT ![id] =
                                         [log EXCEPT !.callee = Len(frames) + 1,
                                                     !.pa = r.pa]], NoCall)
                       /\ UNCHANGED <<status, result>>
          ELSE IF tgt.func.t = "native"
          THEN \E k \in 1..Len(NativeOutcomes) :
                  LET out == NativeOutcomes[k]
                  IN IF out.t = "exception"
                     THEN /\ RaiseIn(id, tgt.fr, heap, out)
                          /\ lastCall' = [lastCall EXCEPT ![id] = [log EXCEPT !.exc = out]]
                     ELSE /\ frames' = [frames EXCEPT ![id] =
                                 [push(tgt.fr, out) EXCEPT !.counter = @ + 1]]
                          /\ lastCall' = [lastCall EXCEPT ![id] =
                                 [log EXCEPT !.returned = TRUE,
                                             !.after = Append(tgt.fr.data_stack, out)]]
                          /\ UNCHANGED <<heap, callStack, status, result>>
          ELSE IF tgt.func.t = "exctype"
          THEN IF split.kwargs # <<>>
               THEN /\ RaiseIn(id, tgt.fr, heap, TypeErrorV("takes no keyword arguments"))
                    /\ lastCall' = [lastCall EXCEPT ![id] =
                           [log EXCEPT !.exc = TypeErrorV("takes no keyword arguments")]]
               ELSE LET out == new_exception(tgt.func, tgt.args)
                    IN /\ frames' = [frames EXCEPT ![id] =
                              [push(tgt.fr, out) EXCEPT !.counter = @ + 1]]
                       /\ lastCall' = [lastCall EXCEPT ![id] =
                              [log EXCEPT !.returned = TRUE,
                                          !.after = Append(tgt.fr.data_stack, out)]]
                       /\ UNCHANGED <<heap, callStack, status, result>>
          ELSE /\ RaiseIn(id, tgt.fr, heap, TypeErrorV("object is not callable"))
               /\ lastCall' = [lastCall EXCEPT ![id] =
                      [log EXCEPT !.exc = TypeErrorV("object is not callable")]]

----------------------------------------------------------------------------
(* Code units: what dis.get_instructions and the code object's attributes  *)
(* give the frame.  An instruction is [opname, arg, argval, offset];        *)
(* argval is a value (a name as a str, a count or a jump target as an int) *)
(* and offset is the instruction's byte offset, two bytes per instruction. *)

Ins(opname, arg, argval) == [opname |-> opname, arg |-> arg, argval |-> argval]
INoArg(opname) == Ins(opname, 0, NoneV)
IName(opname, name) == Ins(opname, 0, StrV(name))
IInt(opname, n) == Ins(opname, n, IntV(n))
IConst(v) == Ins("load_const", 0, v)

\* A code object; co_nlocals is the length of co_varnames.
Code(varnames, argcount, posonly, kwonly, flags, consts, ins) ==
    [co_varnames |-> varnames, co_argcount |-> argcount,
     co_posonlyargcount |-> posonly, co_kwonlyargcount |-> kwonly,
     co_nlocals |-> Len(varnames), co_flags |-> flags,
     co_consts |-> consts,
     ins |-> [i \in 1..Len(ins) |->
                [opname |-> ins[i].opname, arg |-> ins[i].arg,
                 argval |-> ins[i].argval, offset |-> 2 * (i - 1)]]]

\* co_flags of a function body: CO_OPTIMIZED | CO_NEWLOCALS, then the
\* variadic bits 4 and 8.
FunctionFlags(varargs, varkw) ==
    3 + (IF varargs THEN 4 ELSE 0) + (IF varkw THEN 8 ELSE 0)

\* The bounds of the programs run.
MaxArgc == 3

KwNamePool == <<StrV("x"), StrV("y"), StrV("z"), StrV("w")>>
Consts(n, base) == [i \in 1..n |-> IConst(IntV(base + i))]

\* format_value on a stack of two constants.
FormatProgram(flags) ==
    Code(<<>>, 0, 0, 0, 0, <<>>,
         <<IConst(IntV(1)), IConst(IntV(2)), IInt("format_value", flags),
           INoArg("return_value")>>)

\* g(c1.., x=..) with m keyword names, then h(c11..) without kw_names.
KwProgram(n1, m, n2) ==
    Code(<<>>, 0, 0, 0, 0, <<TupleV(SubSeq(KwNamePool, 1, m))>>,
         <<INoArg("push_null"), IName("load_name", "g")>> \o Consts(n1, 0)
         \o <<IInt("kw_names", 0), IInt("call", n1), INoArg("pop_top"),
              INoArg("push_null"), IName("load_name", "h")>> \o Consts(n2, 10)
         \o <<IInt("call", n2), INoArg("return_value")>>)

\* A call whose callable C has the value V beneath it.
BelowPool == <<INoArg("push_null"), IName("load_name", "g"), IConst(IntV(5))>>
CallablePool == <<IName("load_name", "h"), IConst(IntV(6))>>
ReceiverProgram(v, c, n, m) ==
    Code(<<>>, 0, 0, 0, 0, <<TupleV(SubSeq(KwNamePool, 1, m))>>,
         <<BelowPool[v], CallablePool[c]>> \o Consts(n, 0)
         \o (IF m > 0 THEN <<IInt("kw_names", 0)>> ELSE <<>>)
         \o <<IInt("call", n), INoArg("return_value")>>)

\* def inner(a): return a   (reading its parameter)
InnerCode ==
    Code(<<"a">>, 1, 0, 0, FunctionFlags(FALSE, FALSE), <<>>,
         <<IName("load_fast", "a"), INoArg("return_value")>>)

\* x = 1; def fn(a): ...; <name> = 2; fn(5)
ClosureBody(name) ==
    <<IConst(IntV(1)), IName("store_name", "x"),
      IConst(CodeV(InnerCode)), IInt("make_function", 0), IName("store_name", "fn"),
      IConst(IntV(2)), IName("store_name", name),
      INoArg("push_null"), IName("load_name", "fn"), IConst(IntV(5)),
      IInt("call", 1), INoArg("return_value")>>
StoredNames == <<"x", "y", "a", "fn">>

\* The closure body run at top level ...
ClosureProgram(name) == Code(<<>>, 0, 0, 0, 0, <<>>, ClosureBody(name))
\* ... and as the body of a function outer() called from the top level.
NestedProgram(name) ==
    Code(<<>>, 0, 0, 0, 0, <<>>,
         <<INoArg("push_null"),
           IConst(CodeV(Code(<<>>, 0, 0, 0, FunctionFlags(FALSE, FALSE), <<>>,
                             ClosureBody(name)))),
           IInt("make_function", 0), IInt("call", 0)>>)

----------------------------------------------------------------------------
(* VirtualMachine.run: one frame whose locals and globals are the same     *)
(* new mapping.                                                            *)

NoIns == [frame |-> 0, opname |-> "", arg |-> 0, depth |-> 0, stack |-> <<>>]
NoMade == [frame |-> 0, fn |-> NoneV, locals |-> <<>>]

Start(code_obj) ==
    /\ heap = << <<>> >>
    /\ frames = <<NewFrame(CodeV(code_obj), 1, 1)>>
    /\ callStack = <<1>>
    /\ status = "running"
    /\ result = NoneV
    /\ lastCall = <<NoCall>>
    /\ lastIns = NoIns
    /\ kwFresh = {}
    /\ lastMade = NoMade
    /\ executed = <<>>

Init ==
    \/ \E flags \in 0..7 : Start(FormatProgram(flags))
    \/ \E n1 \in 1..MaxArgc, n2 \in 0..MaxArgc :
          \E m \in 1..n1 : Start(KwProgram(n1, m, n2))
    \/ \E v \in 1..Len(BelowPool), c \in 1..Len(CallablePool), n \in 0..MaxArgc :
          \E m \in 0..n : Start(ReceiverProgram(v, c, n, m))
    \/ \E k \in 1..Len(StoredNames) :
          Start(ClosureProgram(StoredNames[k])) \/ Start(NestedProgram(StoredNames[k]))

Next ==
    \/ PushNull
    \/ LoadConst
    \/ LoadName
    \/ LoadFast
    \/ StoreName
    \/ PopTop
    \/ KwNames
    \/ MakeFunction
    \/ FormatValue
    \/ Call
    \/ ReturnValue
    \/ RunExit

Spec == Init /\ [][Next]_vars

----------------------------------------------------------------------------
(* Binding on its own: a frame about to execute the call of a function of  *)
(* any declared shape with any actual arguments.                          *)

MaxPos == 2      \* declared positional parameters
MaxKwOnly == 1   \* declared keyword-only parameters
MaxLocals == 1   \* body-local variables of the callee
MaxArgs == 3     \* actual positional arguments
MaxKw == 2       \* actual keyword arguments
MaxDictArgs == 1 \* leading keyword arguments whose value may be the dict d

PosNames == <<"a", "b", "c", "e">>
KwOnlyNames == <<"k", "m", "n">>
LocalNames == <<"x", "u", "v">>
\* The names a call site may pass as keywords: every name a shape can hold
\* and one, "zzz", that none holds.
KwCallNames == PosNames \o KwOnlyNames \o LocalNames \o <<"args", "kw", "zzz">>
KwCallChoices ==
    {j \in 1..Len(KwCallNames) :
        \/ KwCallNames[j] \in {"args", "kw", "zzz"}
        \/ \E i \in 1..MaxPos : PosNames[i] = KwCallNames[j]
        \/ \E i \in 1..MaxKwOnly : KwOnlyNames[i] = KwCallNames[j]
        \/ \E i \in 1..MaxLocals : LocalNames[i] = KwCallNames[j]}

\* def fn(<p positional, posonly of them before "/">, *args, <kwonly>, **kw)
\* with nloc body locals: co_varnames lists the positional, the
\* keyword-only, the two collectors and then the locals.
Shape(p, posonly, kwonly, varargs, varkw, nloc) ==
    Code(SubSeq(PosNames, 1, p) \o SubSeq(KwOnlyNames, 1, kwonly)
           \o (IF varargs THEN <<"args">> ELSE <<>>)
           \o (IF varkw THEN <<"kw">> ELSE <<>>)
           \o SubSeq(LocalNames, 1, nloc),
         p, posonly, kwonly, FunctionFlags(varargs, varkw), <<>>,
         <<IConst(NoneV), INoArg("return_value")>>)

DefaultValue(i) == IntV(100 + i)
KwDefaultValue(i) == IntV(200 + i)
ArgValue(i) == IntV(i)
KwValue(i, isDict) == IF isDict THEN DictV(3) ELSE IntV(50 + i)
\* The dict object a call may pass: {"q": 1}.
PassedDict == << <<"q", IntV(1)>> >>

\* The calling frame's code: fn(1, .., A, name=.., ..).
CallSite(nargs, kwnames, kwdict) ==
    Code(<<>>, 0, 0, 0, 0, <<TupleV([i \in 1..Len(kwnames) |-> StrV(kwnames[i])])>>,
         <<INoArg("push_null"), IName("load_name", "fn")>>
         \o [i \in 1..nargs |-> IConst(ArgValue(i))]
         \o [i \in 1..Len(kwnames) |->
                IF kwdict[i] THEN IName("load_name", "d") ELSE IConst(KwValue(i, FALSE))]
         \o (IF Len(kwnames) > 0 THEN <<IInt("kw_names", 0)>> ELSE <<>>)
         \o <<IInt("call", nargs + Len(kwnames)), INoArg("return_value")>>)

\* The top-level frame after it made fn (heap[2] holds its keyword-only
\* defaults), bound it and the dict d (heap[3]), and pushed the call's
\* operands: its next instruction is the call.
AtCall(shape, ndefaults, nkwdefaults, nargs, kwnames, kwdict) ==
    LET fn == FunctionV(CodeV(shape), TupleV([i \in 1..ndefaults |-> DefaultValue(i)]),
                        DictV(2), 1)
        site == CallSite(nargs, kwnames, kwdict)
        fr == NewFrame(CodeV(site), 1, 1)
    IN /\ heap = << << <<"fn", fn>>, <<"d", DictV(3)>> >>,
                    [i \in 1..nkwdefaults |-> <<KwOnlyNames[i], KwDefaultValue(i)>>],
                    PassedDict >>
       /\ frames = << [fr EXCEPT
                        !.data_stack = <<NoneV, fn>>
                            \o [i \in 1..nargs |-> ArgValue(i)]
                            \o [i \in 1..Len(kwnames) |-> KwValue(i, kwdict[i])],
                        !.kw_names = IF Len(kwnames) > 0 THEN site.co_consts[1]
                                     ELSE TupleV(<<>>),
                        !.counter = Len(site.ins) - 2] >>
       /\ callStack = <<1>>
       /\ status = "running"
       /\ result = NoneV
       /\ lastCall = <<NoCall>>
       /\ lastIns = NoIns
       /\ kwFresh = IF Len(kwnames) > 0 THEN {1} ELSE {}
       /\ lastMade = [frame |-> 1, fn |-> fn, locals |-> <<>>]
       /\ executed = <<>>

BindInit ==
    \E p \in 0..MaxPos, kwonly \in 0..MaxKwOnly, nloc \in 0..MaxLocals,
       varargs \in BOOLEAN, varkw \in BOOLEAN, nargs \in 0..MaxArgs, nkw \in 0..MaxKw :
      \E posonly \in 0..p, ndefaults \in 0..p, nkwdefaults \in 0..kwonly,
         sel \in [1..nkw -> KwCallChoices], kwdict \in [1..nkw -> BOOLEAN] :
        /\ \A i, j \in 1..nkw : i # j => sel[i] # sel[j]
        /\ \A i \in 1..nkw : kwdict[i] => i <= MaxDictArgs
        /\ AtCall(Shape(p, posonly, kwonly, varargs, varkw, nloc),
                  ndefaults, nkwdefaults, nargs,
                  [i \in 1..nkw |-> KwCallNames[sel[i]]], kwdict)

BindNext ==
    \/ Call
    \/ LoadConst
    \/ ReturnValue

SpecBind == BindInit /\ [][BindNext]_vars

----------------------------------------------------------------------------
(* Scopes, nested calls and raising: a body that stores and looks up a     *)
(* name and then returns or raises, run at call depth 0..MaxDepth.         *)

MaxDepth == 2   \* frames between the top level and the body

ScopeNames == <<"g", "x">>   \* "g" is bound in builtins, "x" is not
\* The body's stores: none, or a value stored under the name.
GlobalStores == <<"", "store_global">>
LocalStores == <<"", "store_name", "store_fast">>
ILoadGlobal(namei, name) == Ins("load_global", namei, StrV(name))
Lookups(name) ==
    <<IName("load_name", name), IName("load_fast", name),
      ILoadGlobal(0, name), ILoadGlobal(1, name)>>
\* How the body ends after the lookup: return the value; raise an exception
\* class; raise an instance; raise the value looked up; fall off the end;
\* a bare raise; raise with a cause (None, an exception class); raise the
\* value looked up with a cause; raise_varargs with three operands.
Endings ==
    << <<INoArg("return_value")>>,
       <<INoArg("pop_top"), IName("load_name", "ValueError"), IInt("raise_varargs", 1)>>,
       <<INoArg("pop_top"), INoArg("push_null"), IName("load_name", "ValueError"),
         IConst(IntV(5)), IInt("call", 1), IInt("raise_varargs", 1)>>,
       <<INoArg("pop_top"), IName("load_name", "KeyboardInterrupt"),
         IInt("raise_varargs", 1)>>,
       <<IInt("raise_varargs", 1)>>,
       <<INoArg("pop_top")>>,
       <<INoArg("pop_top"), IInt("raise_varargs", 0)>>,
       <<INoArg("pop_top"), IName("load_name", "ValueError"), IConst(NoneV),
         IInt("raise_varargs", 2)>>,
       <<INoArg("pop_top"), IName("load_name", "ValueError"),
         IName("load_name", "KeyboardInterrupt"), IInt("raise_varargs", 2)>>,
       <<IConst(NoneV), IInt("raise_varargs", 2)>>,
       <<IInt("raise_varargs", 3)>> >>

ScopeBody(gs, ls, name, lookup, ending) ==
    (IF GlobalStores[gs] = "" THEN <<>>
     ELSE <<IConst(IntV(1)), IName(GlobalStores[gs], name)>>)
    \o (IF LocalStores[ls] = "" THEN <<>>
        ELSE <<IConst(IntV(2)), IName(LocalStores[ls], name)>>)
    \o <<Lookups(name)[lookup]>> \o Endings[ending]

RECURSIVE Nest(_, _, _)
\* body as the code of a function that is defined and called by a function
\* that is defined and called ... d deep; each caller holds a value on its
\* stack beneath the call and binds a name of its own before it.
Nest(body, d, top_level) ==
    IF d = 0
    THEN Code(<<>>, 0, 0, 0, IF top_level THEN 0 ELSE FunctionFlags(FALSE, FALSE),
              <<>>, body)
    ELSE Code(<<>>, 0, 0, 0, IF top_level THEN 0 ELSE FunctionFlags(FALSE, FALSE),
              <<>>,
              <<IConst(IntV(10 + d)), IName("store_name", "y"), IConst(IntV(20 + d)),
                INoArg("push_null"), IConst(CodeV(Nest(body, d - 1, FALSE))),
                IInt("make_function", 0), IInt("call", 0), INoArg("return_value")>>)

CallsInit ==
    \E gs \in 1..Len(GlobalStores), ls \in 1..Len(LocalStores),
       n \in 1..Len(ScopeNames), lookup \in 1..4, ending \in 1..Len(Endings),
       d \in 0..MaxDepth :
        Start(Nest(ScopeBody(gs, ls, ScopeNames[n], lookup, ending), d, TRUE))

CallsNext ==
    \/ PushNull
    \/ LoadConst
    \/ LoadName
    \/ LoadFast
    \/ LoadGlobal
    \/ StoreName
    \/ StoreFast
    \/ StoreGlobal
    \/ PopTop
    \/ MakeFunction
    \/ Call
    \/ RaiseVarargs
    \/ ReturnValue
    \/ RunExit

SpecCalls == CallsInit /\ [][CallsNext]_vars

----------------------------------------------------------------------------
(* Loops: get_iter and for_iter over a tuple of K items, a body, and a     *)
(* backward jump to the for_iter; the loop runs at call depth 0..MaxDepth. *)

MaxIter == 3   \* items of the longest iterated tuple

LoopBodies ==
    << <<IName("store_name", "x")>>,
       <<IName("store_fast", "x")>>,
       <<INoArg("pop_top")>>,
       <<IName("store_name", "x"), IName("load_name", "x"), INoArg("pop_top")>> >>

\* Position (0-based) of the for_iter in a loop unit.
ForIterPos == 3
\* for x in (1, ..., K): body, above a value that stays on the stack and is
\* returned at the exit.
LoopUnit(K, body) ==
    <<IConst(IntV(7)), IConst(TupleV([i \in 1..K |-> IntV(i)])), INoArg("get_iter"),
      IInt("for_iter", 2 * (ForIterPos + Len(body) + 2))>>
    \o body
    \o <<IInt("jump_backward", 2 * ForIterPos), INoArg("return_value")>>

LoopInit ==
    \E K \in 0..MaxIter, b \in 1..Len(LoopBodies), d \in 0..MaxDepth :
        Start(Nest(LoopUnit(K, LoopBodies[b]), d, TRUE))

LoopNext ==
    \/ LoadConst
    \/ GetIter
    \/ ForIter
    \/ StoreName
    \/ StoreFast
    \/ LoadName
    \/ PopTop
    \/ JumpBackward
    \/ PushNull
    \/ MakeFunction
    \/ Call
    \/ ReturnValue

\* run is a loop that dispatches the next instruction as long as there is
\* one: a step that is possible is taken.
SpecLoop == LoopInit /\ [][LoopNext]_vars /\ WF_vars(LoopNext)

----------------------------------------------------------------------------
(* Arithmetic, jumps and unpacking in one frame.                           *)

MaxInt == 2      \* int operands are -MaxInt..MaxInt
MaxUnpack == 3   \* items of the longest unpacked tuple, and the largest count

IBinary(op) == IInt("binary_op", op)
BinaryCodes == 0..25
\* The right operand of the first operator of a chain: an int, or a value
\* whose operations are the object runtime's.
SecondOperands == <<IntV(2), TupleV(<<>>)>>

\* x <c> y above a value that no operator consumes.
BinaryProgram(x, y, c) ==
    Code(<<>>, 0, 0, 0, 0, <<>>,
         <<IConst(IntV(7)), IConst(IntV(x)), IConst(IntV(y)), IBinary(c),
           INoArg("return_value")>>)
\* x <c1> (y <c2> 3): both operators after the loads.
ChainProgram(x, y, c1, c2) ==
    Code(<<>>, 0, 0, 0, 0, <<>>,
         <<IConst(IntV(7)), IConst(IntV(x)), IConst(y), IConst(IntV(3)),
           IBinary(c2), IBinary(c1), INoArg("return_value")>>)
\* (x <c1> y) <c2> 3: a load between the operators.
MixedProgram(x, y, c1, c2) ==
    Code(<<>>, 0, 0, 0, 0, <<>>,
         <<IConst(IntV(7)), IConst(IntV(x)), IConst(y), IBinary(c1),
           IConst(IntV(3)), IBinary(c2), INoArg("return_value")>>)

JumpKinds ==
    <<"jump_forward", "jump_backward",
      "pop_jump_forward_if_true", "pop_jump_forward_if_false",
      "pop_jump_backward_if_true", "pop_jump_backward_if_false",
      "jump_if_true_or_pop", "jump_if_false_or_pop">>
\* The conditions a jump tests: false and true values of several types.
CondPool == <<IntV(0), IntV(1), NoneV, TupleV(<<>>), TupleV(<<IntV(1)>>)>>
\* Jump targets: the first instruction, the two instructions after the jump,
\* and an offset that is no instruction's.
TargetOffsets == <<0, 6, 8, 3>>
JumpProgram(kind, cond, to) ==
    Code(<<>>, 0, 0, 0, 0, <<>>,
         <<IConst(IntV(7)), IConst(cond), IInt(kind, to), IConst(IntV(8)),
           INoArg("return_value")>>)

\* a, b, ... = (1, ..., L) with count C, or the unpacking of an int; the
\* frame then runs off the end of its instructions.
UnpackProgram(seq, C) ==
    Code(<<>>, 0, 0, 0, 0, <<>>,
         <<IConst(IntV(7)), IConst(seq), IInt("unpack_sequence", C)>>)

FlowInit ==
    \/ \E x \in -MaxInt..MaxInt, y \in -MaxInt..MaxInt, c \in BinaryCodes :
          Start(BinaryProgram(x, y, c))
    \/ \E x \in -MaxInt..MaxInt, y \in 1..Len(SecondOperands),
          c1 \in BinaryCodes, c2 \in BinaryCodes :
          \/ Start(ChainProgram(x, SecondOperands[y], c1, c2))
          \/ Start(MixedProgram(x, SecondOperands[y], c1, c2))
    \/ \E kind \in 1..Len(JumpKinds), cond \in 1..Len(CondPool),
          to \in 1..Len(TargetOffsets) :
          Start(JumpProgram(JumpKinds[kind], CondPool[cond], TargetOffsets[to]))
    \/ \E L \in 0..MaxUnpack, C \in 0..MaxUnpack :
          Start(UnpackProgram(TupleV([i \in 1..L |-> IntV(i)]), C))
    \/ \E C \in 0..MaxUnpack : Start(UnpackProgram(IntV(5), C))
    \/ \E K \in 0..MaxIter, b \in 1..Len(LoopBodies) :
          Start(Nest(LoopUnit(K, LoopBodies[b]), 0, TRUE))

FlowNext ==
    \/ LoadConst
    \/ BinaryOp
    \/ UnpackSequence
    \/ GetIter
    \/ ForIter
    \/ JumpForward
    \/ JumpBackward
    \/ PopJumpForwardIfTrue
    \/ PopJumpForwardIfFalse
    \/ PopJumpBackwardIfTrue
    \/ PopJumpBackwardIfFalse
    \/ JumpIfTrueOrPop
    \/ JumpIfFalseOrPop
    \/ StoreName
    \/ StoreFast
    \/ LoadName
    \/ PopTop
    \/ ReturnValue
    \/ RunExit

SpecFlow == FlowInit /\ [][FlowNext]_vars

----------------------------------------------------------------------------
(* Properties.  A call record c is an entry of lastCall with c.made.       *)

CallRecords == {lastCall[id] : id \in {i \in 1..Len(lastCall) : lastCall[i].made}}
\* The values a call popped as its arguments, deepest first.
PoppedArgs(c) == SubSeq(c.before, Len(c.before) - c.argc + 1, Len(c.before))
\* The callable C directly beneath the arguments and the value V beneath it.
CallableOf(c) == c.before[Len(c.before) - c.argc]
BelowOf(c) == c.before[Len(c.before) - c.argc - 1]

\* C1: a call that follows a kw_names + call pair of its frame, with no
\* kw_names of its own, passes no keyword arguments and passes all the
\* values it popped positionally.
C1_PendingNamesConsumedByOneCall ==
    \A c \in CallRecords :
        (~c.fresh /\ Len(c.before) >= c.argc)
            => c.kwargs = <<>> /\ c.positional = PoppedArgs(c)

\* A second call, without kw_names of its own, made after a kw_names + call
\* pair of the same frame, with at least one argument.
C1_SecondCallMade ==
    \E c \in CallRecords : ~c.fresh /\ c.argc >= 1 /\ frames[1].kw_names.items # <<>>
                           /\ Len(c.before) >= c.argc + 2

\* The part of C2 that the code and the claim agree on: with M pending
\* names and M <= N, the arguments are the N popped values split into the
\* first N - M, passed positionally, and the last M, passed under the
\* pending names in order; a returned call leaves the stack below V
\* unchanged with exactly one result in place of V, C and the arguments.
CallShape(c) ==
    /\ Len(c.names) <= c.argc =>
          /\ c.positional = SubSeq(PoppedArgs(c), 1, c.argc - Len(c.names))
          /\ Len(c.kwargs) = Len(c.names)
          /\ \A i \in 1..Len(c.names) :
                c.kwargs[i] = <<c.names[i].s, PoppedArgs(c)[c.argc - Len(c.names) + i]>>
    /\ c.returned =>
          /\ Len(c.after) = Len(c.before) - c.argc - 1
          /\ SubSeq(c.after, 1, Len(c.after) - 1)
                = SubSeq(c.before, 1, Len(c.before) - c.argc - 2)

\* C2 as amended: with the null marker beneath the callable C, C is invoked
\* with the split arguments; with any other value V beneath it, V is
\* invoked with C prepended to the positional arguments; a call that
\* returns pushes exactly one value.
C2_ValueBeneathIsInvokedWithCallablePrepended ==
    \A c \in CallRecords :
        Len(c.before) >= c.argc + 2 =>
            /\ CallShape(c)
            /\ IF BelowOf(c) = NoneV
               THEN c.func = CallableOf(c) /\ c.args = c.positional
               ELSE c.func = BelowOf(c) /\ c.args = <<CallableOf(c)>> \o c.positional

\* C2 as claimed: with a value V other than the null marker beneath the
\* callable C, it is C that is invoked, with V prepended.
C2_CallableIsInvokedWithReceiverPrepended ==
    \A c \in CallRecords :
        Len(c.before) >= c.argc + 2 =>
            /\ CallShape(c)
            /\ IF BelowOf(c) = NoneV
               THEN c.func = CallableOf(c) /\ c.args = c.positional
               ELSE c.func = CallableOf(c) /\ c.args = <<BelowOf(c)>> \o c.positional

\* A call with a non-null value beneath the callable and at least one
\* argument has been made and has returned.
C2_ReceiverCallReturned ==
    \E c \in CallRecords :
        /\ Len(c.before) >= c.argc + 2
        /\ BelowOf(c) # NoneV
        /\ c.argc >= 1
        /\ c.returned

\* The state right after call_op created the callee frame: no instruction
\* of the callee has been dispatched yet.
JustCalled ==
    /\ status = "running"
    /\ lastIns.opname = "call"
    /\ lastCall[lastIns.frame].callee # 0
    /\ callStack # <<>>
    /\ CurId = lastCall[lastIns.frame].callee
    /\ cur.counter = 0

\* l is d overlaid with pa.
SeededFrom(l, d, pa) ==
    /\ DictKeys(l) = DictKeys(d) \cup DictKeys(pa)
    /\ \A k \in DictKeys(l) :
          DictGet(l, k) = IF DictHas(pa, k) THEN DictGet(pa, k) ELSE DictGet(d, k)

C6_FormatValuePushesOne ==
    (lastIns.opname = "format_value" /\ lastIns.depth >= 2) =>
        /\ status # "raised"
        /\ Depth(frames[lastIns.frame])
              = lastIns.depth - (IF BitAnd(lastIns.arg, 4) # 0 THEN 1 ELSE 0)

\* format_value has run on a stack of at least two values.
C6_FormatValueRan == lastIns.opname = "format_value" /\ lastIns.depth >= 2

----------------------------------------------------------------------------
(* Properties of argument binding.  They read the record of the call: the  *)
(* function, the actual arguments, and the outcome (exc, and parsed_args   *)
(* as pa when the callee frame was created).                               *)

FunctionCalls == {c \in CallRecords : c.func.t = "function"}
CoOf(c) == c.func.code.co
NamesOf(c) == CoOf(c).co_varnames
\* The declared parameters: the positional and the keyword-only ones.
Declared(c) ==
    {NamesOf(c)[i] : i \in 1..(CoOf(c).co_argcount + CoOf(c).co_kwonlyargcount)}
PosOnly(c) == {NamesOf(c)[i] : i \in 1..CoOf(c).co_posonlyargcount}
FailedWith(c, msg) == c.exc = TypeErrorV(msg)
\* Keyword j is the first thing that can fail: no positional overflow, and
\* every keyword before it names a parameter that may be passed by keyword.
ReachesKeyword(c, j) ==
    /\ Len(c.args) <= CoOf(c).co_argcount
    /\ \A i \in 1..(j - 1) : c.kwargs[i][1] \in Declared(c) \ PosOnly(c)
\* The **-collector of the binding is a mapping holding key |-> val.
InCollector(c, key, val) ==
    /\ DictHas(c.pa, varkw_name(CoOf(c)))
    /\ LET v == DictGet(c.pa, varkw_name(CoOf(c)))
       IN /\ v.t = "dict"
          /\ DictHas(heap[v.addr], key)
          /\ DictGet(heap[v.addr], key) = val
NotBoundBy(c, key, val) == DictHas(c.pa, key) => DictGet(c.pa, key) # val

\* C3: a keyword argument whose name is not a declared parameter makes the
\* call fail with too-many-keyword-arguments when no **-collector is
\* declared; when one is declared the keyword is stored in it under its name
\* and binds nothing else.
C3_UndeclaredKeywordRejectedOrCollected ==
    \A c \in FunctionCalls : \A j \in 1..Len(c.kwargs) :
        c.kwargs[j][1] \notin Declared(c) =>
            IF ~has_varkw(CoOf(c))
            THEN /\ c.exc # NoExc
                 /\ ReachesKeyword(c, j) => FailedWith(c, ERR_TOO_MANY_KW_ARGS)
            ELSE c.exc = NoExc =>
                    /\ InCollector(c, c.kwargs[j][1], c.kwargs[j][2])
                    /\ NotBoundBy(c, c.kwargs[j][1], c.kwargs[j][2])

\* The positional parameters (0-based index) left without a value by the
\* actual positional arguments and by the keywords that bind a parameter.
NeedsDefault(c) ==
    {i \in Len(c.args)..(CoOf(c).co_argcount - 1) :
        ~(DictHas(c.kwargs, NamesOf(c)[i + 1]) /\ i >= CoOf(c).co_posonlyargcount)}
FirstDefaulted(c) == CoOf(c).co_argcount - Len(c.func.args_default.items)
EarlierStepsPassed(c) ==
    c.exc = NoExc \/ c.exc.msg \in {ERR_MISSING_POS_ARGS, ERR_MISSING_KWONLY_ARGS}

\* C4: when the earlier binding steps did not fail, a positional parameter
\* at index i >= A with no keyword binding is bound to default number
\* i - (P - D) when i >= P - D, and the call fails with
\* missing-positional-arguments when i < P - D.
C4_UnboundPositionalTakesDefault ==
    \A c \in FunctionCalls :
        EarlierStepsPassed(c) =>
            IF \E i \in NeedsDefault(c) : i < FirstDefaulted(c)
            THEN FailedWith(c, ERR_MISSING_POS_ARGS)
            ELSE /\ ~FailedWith(c, ERR_MISSING_POS_ARGS)
                 /\ c.exc = NoExc =>
                       \A i \in NeedsDefault(c) :
                          /\ DictHas(c.pa, NamesOf(c)[i + 1])
                          /\ DictGet(c.pa, NamesOf(c)[i + 1])
                                = c.func.args_default.items[i - FirstDefaulted(c) + 1]

\* C7: a step in which binding fails with one of its error kinds creates no
\* frame and changes no existing mapping: the defining frame's locals, the
\* globals, the captured defaults and the dicts passed as arguments.
C7_FailedBindingChangesNothing ==
    [][(status = "running" /\ status' = "raised" /\ result'.msg \in BindingErrors)
         => /\ Len(frames') = Len(frames)
            /\ \A a \in 1..Len(heap) : heap'[a] = heap[a]]_vars

\* C8: when binding succeeds, parsed_args has a value for every declared
\* positional and keyword-only parameter and for each declared collector.
C8_BindingIsTotal ==
    \A c \in FunctionCalls :
        c.exc = NoExc =>
            /\ \A n \in Declared(c) : DictHas(c.pa, n)
            /\ has_varargs(CoOf(c)) => DictHas(c.pa, vararg_name(CoOf(c)))
            /\ has_varkw(CoOf(c)) => DictHas(c.pa, varkw_name(CoOf(c)))

\* C9: a keyword argument named like a positional-only parameter makes the
\* call fail with positional-only-passed-as-keyword when no **-collector is
\* declared; when one is declared the keyword is stored in it under that
\* name and does not bind the parameter.
C9_PositionalOnlyKeywordRejectedOrCollected ==
    \A c \in FunctionCalls : \A j \in 1..Len(c.kwargs) :
        c.kwargs[j][1] \in PosOnly(c) =>
            IF ~has_varkw(CoOf(c))
            THEN /\ c.exc # NoExc
                 /\ ReachesKeyword(c, j) => FailedWith(c, ERR_POSONLY_PASSED_AS_KW)
            ELSE c.exc = NoExc =>
                    /\ InCollector(c, c.kwargs[j][1], c.kwargs[j][2])
                    /\ NotBoundBy(c, c.kwargs[j][1], c.kwargs[j][2])

\* C10: with more actual positional arguments than declared positional
\* parameters the call fails with too-many-positional-arguments when no
\* *-collector is declared; when one is declared a successful binding has
\* the collector bound to the overflow in order and the first P parameters
\* bound by index.
C10_OverflowGoesToCollector ==
    \A c \in FunctionCalls :
        Len(c.args) > CoOf(c).co_argcount =>
            IF ~has_varargs(CoOf(c))
            THEN FailedWith(c, ERR_TOO_MANY_POS_ARGS)
            ELSE c.exc = NoExc =>
                    /\ DictGet(c.pa, vararg_name(CoOf(c)))
                          = TupleV(SubSeq(c.args, CoOf(c).co_argcount + 1, Len(c.args)))
                    /\ \A i \in 1..CoOf(c).co_argcount :
                          /\ DictHas(c.pa, NamesOf(c)[i])
                          /\ DictGet(c.pa, NamesOf(c)[i]) = c.args[i]


----------------------------------------------------------------------------
(* Frames keep their own state (SpecCalls).                                *)

\* The step dispatches an instruction of a callee frame.
CalleeStep == /\ status = "running"
              /\ Len(callStack) > 1
              /\ executed' # executed
Dispatched == executed'[Len(executed')]
\* The step returns from the running frame to frame g.
ReturnsTo(g) == /\ Len(callStack') = Len(callStack) - 1
                /\ g = callStack[Len(callStack) - 1]

\* C11: an instruction executed by a callee frame leaves the locals mapping
\* and the stack of every other frame as they were, except that store_global
\* changes the globals mapping (which the top-level frame has as its locals)
\* and that returning pushes on the caller; store_name and store_fast in a
\* callee bind the name in the callee's own locals mapping and change no
\* other mapping.
C11_CalleeStoresStayInCallee ==
    [][CalleeStep =>
          /\ \A g \in 1..Len(frames) :
                g # CurId =>
                  /\ ReturnsTo(g) \/ frames'[g].data_stack = frames[g].data_stack
                  /\ \/ heap'[frames[g].locals] = heap[frames[g].locals]
                     \/ /\ Dispatched.opname = "store_global"
                        /\ frames[g].locals = cur.globals
          /\ (Dispatched.opname \in {"store_name", "store_fast"} /\ status' = "running") =>
                /\ \A a \in 1..Len(heap) : a # cur.locals => heap'[a] = heap[a]
                /\ DictHas(heap'[cur.locals], CurIns.argval.s)
                /\ DictGet(heap'[cur.locals], CurIns.argval.s) = top(cur)
      ]_vars

\* A callee two calls deep has just bound x in its locals while both of its
\* callers hold values on their stacks and do not bind x.
C11_CalleeStored ==
    /\ status = "running"
    /\ Len(callStack) = 3
    /\ lastIns.frame = 3
    /\ lastIns.opname \in {"store_name", "store_fast"}
    /\ DictHas(heap[frames[3].locals], "x")
    /\ ~DictHas(heap[frames[2].locals], "x")
    /\ ~DictHas(heap[frames[1].locals], "x")
    /\ frames[2].data_stack # <<>>
    /\ frames[1].data_stack # <<>>


----------------------------------------------------------------------------
(* Loops run their body once per item and leave by the exit (SpecLoop).    *)

\* The frames that run a loop unit, and the unit's parts.
LoopFrames ==
    {id \in 1..Len(frames) :
        /\ Len(ins_lst(frames[id])) > ForIterPos
        /\ ins_lst(frames[id])[ForIterPos + 1].opname = "for_iter"}
LoopLength(id) == Len(ins_lst(frames[id])[2].argval.items)
ExitPos(id) == index(frames[id], ins_lst(frames[id])[ForIterPos + 1].argval.i)
\* How many times frame id dispatched the instruction at position pos.
Dispatches(id, pos) ==
    Cardinality({i \in 1..Len(executed) :
                    executed[i].frame = id /\ executed[i].pos = pos})

LoopCounts ==
    \A id \in LoopFrames :
        LET K == LoopLength(id)
            entered == Dispatches(id, ForIterPos + 1)
            tested == Dispatches(id, ForIterPos)
            left == Dispatches(id, ExitPos(id))
        IN /\ entered <= K
           /\ tested <= K + 1
           /\ left <= 1
           /\ left = 1 => (entered = K /\ tested = K + 1)
           /\ (tested = K + 1 /\ left = 0) =>
                 /\ status = "running"
                 /\ frames[id].counter = ExitPos(id)
                 /\ frames[id].data_stack = <<IntV(7)>>
LoopLeft == \E id \in LoopFrames : Dispatches(id, ExitPos(id)) = 1

\* C12: a loop over K items enters its body at most K times and exactly K
\* times before it leaves; the for_iter that finds the iterator exhausted
\* pops it and sets the counter to the exit position, which happens once;
\* and the instruction at the exit offset is eventually dispatched.
C12_LoopRunsKTimesThenExits == [] LoopCounts /\ <> LoopLeft

\* A loop over MaxIter items in a called function has left by its exit.
C12_LongLoopLeft ==
    \E id \in LoopFrames :
        /\ id > 1
        /\ LoopLength(id) = MaxIter
        /\ Dispatches(id, ExitPos(id)) = 1
        /\ Dispatches(id, ForIterPos + 1) = MaxIter


----------------------------------------------------------------------------
(* Raising in a callee (SpecCalls).                                        *)

\* The step dispatches `raise_varargs 1` in a callee frame whose stack top
\* is an exception instance or an exception class.
RaisesInCallee ==
    /\ CalleeStep
    /\ Dispatched.opname = "raise_varargs"
    /\ CurIns.argval.i = 1
    /\ Depth(cur) > 0
    /\ top(cur).t \in {"exception", "exctype"}
\* The exception `raise v` raises: v itself, or an instance of the class v.
RaisedBy(v) == IF v.t = "exception" THEN v ELSE ExcV(v.kind, "")

\* C13: raise_varargs with 1 operand in a callee frame ends the run as
\* raised with the exception that was on the stack (the instance of it when
\* it is a class), leaves every caller frame as it was, so that nothing is
\* pushed on a caller's stack, and no frame dispatches an instruction once
\* the run has raised.
C13_RaiseInCalleeReachesTopLevel ==
    [][/\ status = "running"
       /\ RaisesInCallee =>
             /\ status' = "raised"
             /\ result' = RaisedBy(top(cur))
             /\ callStack' = callStack
             /\ \A g \in 1..Len(frames) : g # CurId => frames'[g] = frames[g]
      ]_vars

\* A callee two calls deep raised the instance ValueError(5); the run ended
\* as raised with that instance, and both callers still hold only the value
\* they had beneath the call.
C13_InstanceRaisedTwoDeep ==
    /\ status = "raised"
    /\ Len(callStack) = 3
    /\ lastIns.frame = 3
    /\ lastIns.opname = "raise_varargs"
    /\ lastIns.stack # <<>>
    /\ result = new_exception(ExcClassV("ValueError"), <<IntV(5)>>)
    /\ result = lastIns.stack[Len(lastIns.stack)]
    /\ frames[1].data_stack = <<IntV(22)>>
    /\ frames[2].data_stack = <<IntV(21)>>


----------------------------------------------------------------------------
(* Calls are nested and synchronous (SpecCalls).                           *)

\* The step invokes a function object: a callee frame is created.
InvokesFunction == Len(frames') = Len(frames) + 1
\* The frames whose call is waiting for its callee.
Waiting == {callStack[i] : i \in 1..Len(callStack) - 1}

\* C14: the frame that dispatches is the innermost active frame; invoking
\* a function creates a frame with counter 0, an empty stack and no return
\* value on top of the call chain; while a callee is active the counter of
\* each waiting frame stays at its call; and a return pushes exactly the
\* callee's return value on the caller, whose counter moves to the next
\* instruction in that same step.
C14_CallsAreNestedAndSynchronous ==
    [][/\ executed' # executed =>
             /\ Dispatched.frame = callStack[Len(callStack)]
             /\ \A g \in Waiting : ins_lst(frames[g])[frames[g].counter + 1].opname = "call"
       /\ InvokesFunction =>
             /\ Dispatched.opname = "call"
             /\ callStack' = Append(callStack, Len(frames'))
             /\ frames'[Len(frames')].counter = 0
             /\ frames'[Len(frames')].data_stack = <<>>
             /\ frames'[Len(frames')].return_value = NoneV
             /\ frames'[CurId].counter = cur.counter
       /\ \A g \in Waiting :
             IF ReturnsTo(g)
             THEN /\ callStack' = SubSeq(callStack, 1, Len(callStack) - 1)
                  /\ frames'[g].data_stack =
                        Append(frames[g].data_stack, frames'[CurId].return_value)
                  /\ frames'[g].counter = frames[g].counter + 1
                  /\ Dispatched.opname = "return_value" =>
                        frames'[CurId].return_value = top(cur)
             ELSE /\ frames'[g].counter = frames[g].counter
                  /\ frames'[g].data_stack = frames[g].data_stack
      ]_vars

\* A callee two calls deep has returned an int, which now lies on its
\* caller's stack above the value the caller held beneath the call.
C14_InnerCallReturned ==
    /\ status = "running"
    /\ callStack = <<1, 2>>
    /\ Len(frames) = 3
    /\ lastIns.frame = 3
    /\ lastIns.opname = "return_value"
    /\ frames[3].return_value.t = "int"
    /\ frames[2].data_stack = <<IntV(21), frames[3].return_value>>
    /\ ins_lst(frames[2])[frames[2].counter + 1].opname = "return_value"


----------------------------------------------------------------------------
(* Stack depth under load_const and binary_op (SpecFlow).                  *)

Arithmetic == {"load_const", "binary_op"}
\* How many of the first n dispatched instructions have the given opname.
Dispatched_of(opname, n) ==
    Cardinality({i \in 1..n : executed[i].opname = opname})
\* The first n dispatched instructions are load_const and binary_op only.
OnlyArithmetic(n) == \A i \in 1..n : executed[i].opname \in Arithmetic

\* C15: after a sequence of load_const and binary_op instructions that ran
\* from an empty stack, each binary_op on at least two values and none of
\* them raising, the depth is the number of load_const minus the number of
\* binary_op; each load_const leaves all values beneath the pushed one and
\* each binary_op all values beneath its two operands as they were.
C15_DepthIsLoadsMinusOperators ==
    [][(/\ executed' # executed
        /\ status' = "running"
        /\ Dispatched.opname \in Arithmetic
        /\ OnlyArithmetic(Len(executed))
        /\ Dispatched.opname = "binary_op" => Depth(cur) >= 2) =>
          LET before == cur.data_stack
              after == frames'[CurId].data_stack
              kept == IF Dispatched.opname = "binary_op" THEN Len(before) - 2
                      ELSE Len(before)
          IN /\ Len(before) = Dispatched_of("load_const", Len(executed))
                                - Dispatched_of("binary_op", Len(executed))
             /\ Len(after) = Len(before)
                             + (IF Dispatched.opname = "load_const" THEN 1 ELSE -1)
             /\ SubSeq(after, 1, kept) = SubSeq(before, 1, kept)
      ]_vars

\* Four loads and two operators with codes of both tables have run: one
\* value lies above the value that no operator consumed.
C15_TwoOperatorsRan ==
    /\ status = "running"
    /\ Len(executed) = 6
    /\ OnlyArithmetic(6)
    /\ Dispatched_of("binary_op", 6) = 2
    /\ executed[4].opname = "binary_op"
    /\ ins_lst(frames[1])[4].arg < 13
    /\ ins_lst(frames[1])[6].arg >= 13
    /\ Len(frames[1].data_stack) = 2
    /\ frames[1].data_stack[1] = IntV(7)


----------------------------------------------------------------------------
(* The counter and the jumps (SpecFlow).                                   *)

\* The handler of the instruction the running frame is at takes its jump.
Jumps ==
    CASE CurIns.opname \in {"jump_forward", "jump_backward"} -> TRUE
      [] CurIns.opname \in {"pop_jump_forward_if_true", "pop_jump_backward_if_true",
                            "jump_if_true_or_pop"} -> Truthy(top(cur), heap)
      [] CurIns.opname \in {"pop_jump_forward_if_false", "pop_jump_backward_if_false",
                            "jump_if_false_or_pop"} -> ~Truthy(top(cur), heap)
      [] CurIns.opname = "for_iter" -> heap[top(cur).addr] = <<>>
      [] OTHER -> FALSE

CounterInRange ==
    (status = "running" /\ callStack # <<>>) =>
        cur.counter \in 0..Len(ins_lst(cur))

\* After a handler that returned, the frame is at the instruction whose
\* offset is the jump target when the handler jumped, and at the next
\* position otherwise.
CounterFollowsHandler ==
    (/\ executed' # executed
     /\ status' = "running"
     /\ callStack' = callStack) =>
        IF Jumps
        THEN /\ frames'[CurId].counter < Len(ins_lst(cur))
             /\ ins_lst(cur)[frames'[CurId].counter + 1].offset = CurIns.argval.i
        ELSE frames'[CurId].counter = cur.counter + 1

\* C16: whenever the loop is about to fetch, the counter is between 0 and
\* the number of instructions; a handler that jumps to offset t leaves the
\* frame at the instruction with offset t, offset 0 included; any other
\* handler except return_value leaves it at the next position.
C16_CounterAndJumpTargets == [] CounterInRange /\ [][CounterFollowsHandler]_vars

\* A backward conditional jump to offset 0 was taken: the frame is at its
\* first instruction again.
C16_JumpedBackToFirst ==
    /\ status = "running"
    /\ lastIns.opname = "pop_jump_backward_if_true"
    /\ lastIns.arg = 0
    /\ Truthy(lastIns.stack[Len(lastIns.stack)], heap)
    /\ frames[1].counter = 0
    /\ ins_lst(frames[1])[1].offset = 0


----------------------------------------------------------------------------
(* Name lookup (SpecCalls).                                                *)

\* The mappings of the running frame, and the name its instruction names.
InLocals(n) == DictHas(heap[cur.locals], n)
InGlobals(n) == DictHas(heap[cur.globals], n)
InBuiltins(n) == DictHas(Builtins, n)
\* The step pushed exactly the values vs and the frame goes on.
Pushed(vs) == /\ status' = "running"
              /\ frames'[CurId].data_stack = cur.data_stack \o vs
\* The step failed with the unresolved-name error.
Unresolved == status' = "raised" /\ result' = NameErrorV

\* C17: load_global pushes the value globals binds to the name, else the
\* value builtins binds to it, else fails with NameError, whatever locals
\* binds; with the low bit of its operand set it pushes the null marker
\* first, so that the marker lies directly beneath the value.  load_name
\* and load_fast push the value of locals, else of globals, else of
\* builtins, else fail with NameError.
C17_LoadGlobalSkipsLocals ==
    [][executed' # executed =>
          LET n == CurIns.argval.s
              marker == IF CurIns.arg % 2 = 1 THEN <<NoneV>> ELSE <<>>
          IN /\ Dispatched.opname = "load_global" =>
                   IF InGlobals(n) THEN Pushed(marker \o <<DictGet(heap[cur.globals], n)>>)
                   ELSE IF InBuiltins(n) THEN Pushed(marker \o <<DictGet(Builtins, n)>>)
                   ELSE Unresolved
             /\ Dispatched.opname \in {"load_name", "load_fast"} =>
                   IF InLocals(n) THEN Pushed(<<DictGet(heap[cur.locals], n)>>)
                   ELSE IF InGlobals(n) THEN Pushed(<<DictGet(heap[cur.globals], n)>>)
                   ELSE IF InBuiltins(n) THEN Pushed(<<DictGet(Builtins, n)>>)
                   ELSE Unresolved
      ]_vars

\* In a callee whose locals bind g to 2 while globals bind it to 1 and
\* builtins to a host function, load_global with the low bit set has pushed
\* the null marker and above it the value of globals.
C17_GlobalLoadedPastLocal ==
    /\ status = "running"
    /\ Len(callStack) > 1
    /\ lastIns.opname = "load_global"
    /\ lastIns.arg = 1
    /\ DictHas(heap[cur.locals], "g") /\ DictGet(heap[cur.locals], "g") = IntV(2)
    /\ DictHas(heap[cur.globals], "g") /\ DictGet(heap[cur.globals], "g") = IntV(1)
    /\ DictHas(Builtins, "g")
    /\ cur.data_stack = lastIns.stack \o <<NoneV, IntV(1)>>


----------------------------------------------------------------------------
(* Conditional jumps and the condition on the stack (SpecFlow).            *)

OrPop == {"jump_if_true_or_pop", "jump_if_false_or_pop"}
PopJump == {"pop_jump_forward_if_true", "pop_jump_forward_if_false",
            "pop_jump_backward_if_true", "pop_jump_backward_if_false"}
\* The frame after the step: at the instruction with offset `to`, or at the
\* next position.
LandsOn(to) == /\ status' = "running"
               /\ ins_lst(cur)[frames'[CurId].counter + 1].offset = to
GoesOn == /\ status' = "running"
          /\ frames'[CurId].counter = cur.counter + 1
Popped(n) == SubSeq(cur.data_stack, 1, Len(cur.data_stack) - n)

\* C18: jump_if_true_or_pop and jump_if_false_or_pop either jump with the
\* stack unchanged, when the condition on top matches, or pop the condition
\* and go on to the next instruction; the four pop_jump instructions pop
\* exactly one value in every case, and a backward variant does what its
\* forward counterpart does on the same frame and target.
C18_ConditionalJumpsPopOrJump ==
    [][(/\ executed' # executed
        /\ Dispatched.opname \in OrPop \cup PopJump
        /\ Depth(cur) > 0
        /\ HasOffset(cur, CurIns.argval.i)) =>
          LET to == CurIns.argval.i
              matches == IF Dispatched.opname
                              \in {"jump_if_true_or_pop", "pop_jump_forward_if_true",
                                   "pop_jump_backward_if_true"}
                         THEN Truthy(top(cur), heap) ELSE ~Truthy(top(cur), heap)
          IN /\ Dispatched.opname \in OrPop =>
                   IF matches
                   THEN LandsOn(to) /\ frames'[CurId].data_stack = cur.data_stack
                   ELSE GoesOn /\ frames'[CurId].data_stack = Popped(1)
             /\ Dispatched.opname \in PopJump =>
                   /\ frames'[CurId].data_stack = Popped(1)
                   /\ IF matches THEN LandsOn(to) ELSE GoesOn
                   /\ pop_jump_backward_if_true_op(cur, to, heap)
                        = pop_jump_forward_if_true_op(cur, to, heap)
                   /\ pop_jump_backward_if_false_op(cur, to, heap)
                        = pop_jump_forward_if_false_op(cur, to, heap)
      ]_vars

\* jump_if_true_or_pop found a non-empty tuple on top and jumped over an
\* instruction to the return_value: the tuple is still on top.
C18_JumpedWithConditionKept ==
    /\ status = "running"
    /\ lastIns.opname = "jump_if_true_or_pop"
    /\ lastIns.arg = 8
    /\ frames[1].counter = 4
    /\ frames[1].data_stack = <<IntV(7), TupleV(<<IntV(1)>>)>>


----------------------------------------------------------------------------
(* The two halves of the operator table (SpecFlow).                        *)

\* The running frame is about to dispatch binary_op with a code of the
\* first half on two ints.
AtIntOperator ==
    /\ status = "running"
    /\ callStack # <<>>
    /\ cur.counter < Len(ins_lst(cur))
    /\ CurIns.opname = "binary_op"
    /\ CurIns.arg \in 0..12
    /\ Depth(cur) >= 2
    /\ top(cur).t = "int"
    /\ top(pop(cur)).t = "int"

\* C19: on two ints, binary_op with code c + 13 gives what binary_op with
\* code c gives, for every c in 0..12: the same frame with the same result
\* pushed, or the same exception; the left operand is the deeper value.
C19_MethodTableAgreesWithOperatorTable ==
    AtIntOperator =>
        binary_op_op(cur, CurIns.arg + 13, heap, 1) = binary_op_op(cur, CurIns.arg, heap, 1)

\* binary_op with code 17 ran on two ints and raised AttributeError.
C19_MatmulMethodRaised ==
    /\ status = "raised"
    /\ lastIns.opname = "binary_op"
    /\ lastIns.arg = 17
    /\ lastIns.stack[Len(lastIns.stack)].t = "int"
    /\ lastIns.stack[Len(lastIns.stack) - 1].t = "int"
    /\ result = AttributeErrorV


----------------------------------------------------------------------------
(* unpack_sequence (SpecFlow).                                             *)

\* C20: unpack_sequence with count C on a sequence of L items on top: when
\* L # C it fails with ValueError and the stack is as it was, the sequence
\* on top; when L = C the sequence is replaced by its items, the first item
\* on top, so that the j-th value from the top is the j-th item.
C20_UnpackChecksLengthAndReverses ==
    [][(/\ executed' # executed
        /\ Dispatched.opname = "unpack_sequence"
        /\ Depth(cur) > 0
        /\ top(cur).t = "tuple") =>
          LET C == CurIns.argval.i
              items == top(cur).items
              after == frames'[CurId].data_stack
          IN IF Len(items) # C
             THEN /\ status' = "raised"
                  /\ result' = ExcV("ValueError", "")
                  /\ after = cur.data_stack
             ELSE /\ status' = "running"
                  /\ Len(after) = Depth(cur) - 1 + C
                  /\ SubSeq(after, 1, Depth(cur) - 1) = Popped(1)
                  /\ \A j \in 1..C : after[Len(after) - j + 1] = items[j]
      ]_vars

\* A tuple of MaxUnpack items was unpacked with that count: its first item
\* is on top and its last item lies directly above the value beneath.
C20_UnpackedLongest ==
    /\ status = "running"
    /\ lastIns.opname = "unpack_sequence"
    /\ lastIns.arg = MaxUnpack
    /\ Len(frames[1].data_stack) = MaxUnpack + 1
    /\ top(frames[1]) = IntV(1)
    /\ frames[1].data_stack[2] = IntV(MaxUnpack)
    /\ frames[1].data_stack[1] = IntV(7)


----------------------------------------------------------------------------
(* The last raised exception of a frame (SpecCalls).                       *)

\* Every frame whose run is active and not abandoned has no last raised
\* exception.
SlotUnset ==
    status = "running" =>
        \A i \in 1..Len(callStack) :
            frames[callStack[i]].last_raised_exception = NoneV

\* A step that writes the slot of a frame is a raise_varargs with 1 or 2
\* operands dispatched by that frame and ends the run as raised; a frame is
\* created with the slot unset; raise_varargs with 0 operands fails with
\* ValueError and raises no exception of the frame.
SlotWrittenOnlyByRaise ==
    /\ \A g \in 1..Len(frames) :
          frames'[g].last_raised_exception # frames[g].last_raised_exception =>
             /\ g = CurId
             /\ executed' # executed
             /\ Dispatched.opname = "raise_varargs"
             /\ CurIns.argval.i \in {1, 2}
             /\ status' = "raised"
    /\ \A g \in Len(frames) + 1..Len(frames') :
          frames'[g].last_raised_exception = NoneV
    /\ (executed' # executed /\ Dispatched.opname = "raise_varargs"
          /\ CurIns.argval.i = 0) =>
             /\ status' = "raised"
             /\ result' = ExcV("ValueError", "Invalid last_raised_exception")
             /\ frames'[CurId] = cur

\* C21: a frame that is about to dispatch an instruction has no last raised
\* exception: only raise_varargs with 1 or 2 operands writes it, in the step
\* that abandons the frame, and a new frame starts without one; so
\* raise_varargs with 0 operands always fails with the ValueError for the
\* missing exception and re-raises nothing.
C21_LastRaisedUnsetWhileRunning == [] SlotUnset /\ [][SlotWrittenOnlyByRaise]_vars

\* A callee two calls deep dispatched raise_varargs with 0 operands and the
\* run ended with the ValueError for the missing exception.
C21_BareRaiseFailed ==
    /\ status = "raised"
    /\ Len(callStack) = 3
    /\ lastIns.frame = 3
    /\ lastIns.opname = "raise_varargs"
    /\ lastIns.arg = 0
    /\ result = ExcV("ValueError", "Invalid last_raised_exception")
    /\ frames[3].last_raised_exception = NoneV

====
